---- MODULE Spec2Model ----
(***************************************************************************)
(* Compliance service: event ingestion, retention ledger, dedup gate and   *)
(* cache-aside reporting, modelled from app/core/consumers.py,             *)
(* app/core/cache.py, app/core/config.py and app/api/routes/compliance.py. *)
(* Time is counted in seconds since an arbitrary origin.                   *)
(***************************************************************************)
EXTENDS Integers, Sequences, FiniteSets, TLC

VARIABLES
    now,            \* datetime.utcnow(), in seconds
    ticks,          \* number of clock advances so far
    store,          \* committed rows: categories, inventory, retention
    redis_up,       \* result of ComplianceCacheService._ensure_connected()
    markers,        \* compliance:event_processed:* keys -> [val, exp]
    counters,       \* compliance:counter:* keys -> [val, exp]
    retentionCache, \* compliance:retention:* keys -> [val, exp]
    inventoryCache, \* compliance:inventory:* keys -> [val, exp]
    employeeDataCache, \* compliance:employee_data:* keys -> [val, exp]
    published,      \* audit envelopes published to compliance-data-deleted
    delivered,      \* number of handler invocations so far
    last,           \* the last handler invocation and its outcome
    committed,      \* dedup keys of the events whose transaction committed
    lastReport,     \* the response of the query just served, if any
    workers         \* in-flight store transactions of concurrent workers

vars == <<now, ticks, store, redis_up, markers, counters, retentionCache,
          inventoryCache, employeeDataCache, published, delivered, last,
          committed, lastReport, workers>>

----------------------------------------------------------------------------
(* Bounds of the model *)

MaxEvents == 2
MaxTicks == 2
MaxLedgerEvents == 3

(* Program constants *)

DEFAULT_RETENTION_DAYS == 365
CACHE_TTL_DEDUP == 86400
CACHE_TTL_RETENTION == 300
CACHE_TTL_INVENTORY == 300
CACHE_TTL_EMPLOYEE_DATA == 300
COUNTER_TTL == 604800
SecondsPerDay == 86400
HalfDay == SecondsPerDay \div 2

None == "None"
NoTime == << >>
At(t) == <<t>>

Ids == {"u1", "u2"}
OptIds == Ids \cup {None}
EventIds == {"e1"}
OptEventIds == EventIds \cup {None}
PayloadKinds == {"dict", "absent", "null"}
Reasons == {None, "gdpr request"}
TickSteps == {HalfDay, DEFAULT_RETENTION_DAYS * SecondsPerDay}

Min(S) == CHOOSE x \in S : \A y \in S : x <= y
Or(a, b) == IF a # None THEN a ELSE b
Range(f) == {f[x] : x \in DOMAIN f}
Restrict(f, D) == [x \in D |-> f[x]]
Put(f, k, v) == [x \in DOMAIN f \cup {k} |-> IF x = k THEN v ELSE f[x]]

----------------------------------------------------------------------------
(* Event envelopes.  payload_kind tells whether the "payload" key holds a   *)
(* dict, is absent (the envelope itself is then read as the payload) or is  *)
(* null.  f holds the identifying fields of whichever dict is read.         *)

BlankFields ==
    [id |-> None, user_id |-> None, employee_id |-> None,
     attendance_id |-> None, leave_id |-> None, notification_id |-> None,
     recipient_id |-> None, deletion_reason |-> None]

Envelope(event_id, event_type, kind, f) ==
    [event_id |-> event_id, event_type |-> event_type,
     payload_kind |-> kind, f |-> IF kind = "null" THEN BlankFields ELSE f]

\* event_data.get("payload", {}).get(field): raises when payload is null
DedupFallbackRaises(env) == env.event_id = None /\ env.payload_kind = "null"
DedupFallback(env, field) ==
    IF env.payload_kind = "dict" THEN env.f[field] ELSE None

\* payload = event_data.get("payload", event_data); payload.get(...) raises
\* AttributeError when payload is null
PayloadRaises(env) == env.payload_kind = "null"

----------------------------------------------------------------------------
(* DATA_INVENTORY_MAPPING *)

M(data_name, data_type, storage_location, purpose, legal_basis) ==
    [data_name |-> data_name, data_type |-> data_type,
     storage_location |-> storage_location, purpose |-> purpose,
     legal_basis |-> legal_basis]

UserAccountData ==
    M("User Account Data", "personal", "user_management_service.users",
      "User authentication and identification",
      "Contract - Employment agreement")
EmployeePersonalData ==
    M("Employee Personal Data", "personal",
      "employee_management_service.employees",
      "Human resource management and employment record keeping",
      "Contract - Employment agreement")
EmployeeSalaryData ==
    M("Employee Salary Data", "sensitive",
      "employee_management_service.salaries",
      "Payroll processing and compensation management",
      "Contract - Employment agreement")
AttendanceRecords ==
    M("Attendance Records", "employment",
      "attendance_management_service.attendance",
      "Time tracking and work hour monitoring",
      "Contract - Employment agreement")
LeaveRecords ==
    M("Leave Records", "employment", "leave_management_service.leaves",
      "Leave management and absence tracking",
      "Contract - Employment agreement")
CommunicationRecords ==
    M("Communication Records", "operational",
      "notification_service.notifications",
      "Communication tracking and audit",
      "Legitimate Interest - Business operations")

DATA_INVENTORY_MAPPING ==
    [t \in {"user-created", "user-updated", "employee-created",
            "employee-updated", "employee-salary-updated",
            "employee-salary-increment", "attendance-checkin",
            "attendance-checkout", "leave-requested", "leave-approved",
            "notification-sent"} |->
        CASE t \in {"user-created", "user-updated"} -> UserAccountData
          [] t \in {"employee-created", "employee-updated"} ->
                EmployeePersonalData
          [] t \in {"employee-salary-updated", "employee-salary-increment"} ->
                EmployeeSalaryData
          [] t \in {"attendance-checkin", "attendance-checkout"} ->
                AttendanceRecords
          [] t \in {"leave-requested", "leave-approved"} -> LeaveRecords
          [] OTHER -> CommunicationRecords]

----------------------------------------------------------------------------
(* The record store.  A session works on a copy s of the committed rows    *)
(* and commit replaces the committed rows by the copy.                      *)

EmptyStore == [categories |-> << >>, inventory |-> << >>, retention |-> << >>]

category_mapping(data_type) ==
    CASE data_type = "personal" -> <<"Personal Data", "high">>
      [] data_type = "sensitive" -> <<"Sensitive Data", "critical">>
      [] data_type = "employment" -> <<"Employment Data", "medium">>
      [] data_type = "operational" -> <<"Operational Data", "low">>
      [] OTHER -> <<"Other Data", "medium">>

\* select(...).first(): the matching row with the lowest primary key, 0 if none
First(hits) == IF hits = {} THEN 0 ELSE Min(hits)

select_category(s, data_type) ==
    First({i \in 1..Len(s.categories) :
            s.categories[i].name = category_mapping(data_type)[1]})

\* session.add(category); session.flush()
insert_category(s, data_type) ==
    LET cm == category_mapping(data_type)
        row == [id |-> Len(s.categories) + 1, name |-> cm[1],
                description |-> <<"Category for", data_type, "data">>,
                sensitivity_level |-> cm[2]]
    IN  [s EXCEPT !.categories = Append(@, row)]

get_or_create_category_always_creates(s, data_type) ==
    [s |-> insert_category(s, data_type), id |-> Len(s.categories) + 1]

get_or_create_category(s, data_type) ==
    LET found == select_category(s, data_type)
    IN  IF found # 0
        THEN [s |-> s, id |-> found]
        ELSE [s |-> insert_category(s, data_type),
              id |-> Len(s.categories) + 1]

select_data_inventory(s, m) ==
    First({i \in 1..Len(s.inventory) :
            /\ s.inventory[i].data_name = m.data_name
            /\ s.inventory[i].storage_location = m.storage_location})

\* session.add(inventory); session.flush()
insert_data_inventory(s, m, category_id) ==
    LET row == [id |-> Len(s.inventory) + 1,
                data_name |-> m.data_name,
                data_type |-> m.data_type,
                category_id |-> category_id,
                storage_location |-> m.storage_location,
                purpose_of_processing |-> m.purpose,
                legal_basis |-> m.legal_basis,
                retention_days |-> DEFAULT_RETENTION_DAYS,
                data_subjects |-> "employees",
                processing_system |-> "HRMS",
                encryption_status |-> "encrypted",
                access_control_level |-> "restricted"]
    IN  [s EXCEPT !.inventory = Append(@, row)]

get_or_create_data_inventory(s, m) ==
    LET found == select_data_inventory(s, m)
        cat == get_or_create_category(s, m.data_type)
    IN  IF found # 0
        THEN [s |-> s, id |-> found]
        ELSE [s |-> insert_data_inventory(cat.s, m, cat.id),
              id |-> Len(s.inventory) + 1]

select_retention_record(s, inventory_id, record_id) ==
    First({i \in 1..Len(s.retention) :
            /\ s.retention[i].data_inventory_id = inventory_id
            /\ s.retention[i].record_id = record_id})

\* the branch of _create_retention_record for an entry that exists
refresh_retention_record(s, existing, t) ==
    [s EXCEPT !.retention[existing].data_last_accessed = t,
              !.retention[existing].updated_at = t]

\* the branch of _create_retention_record for a new entry
insert_retention_record(s, inventory_id, record_id, data_subject_id, t) ==
    LET retention_days ==
            IF inventory_id \in 1..Len(s.inventory)
            THEN s.inventory[inventory_id].retention_days
            ELSE DEFAULT_RETENTION_DAYS
        row == [id |-> Len(s.retention) + 1,
                data_inventory_id |-> inventory_id,
                record_id |-> record_id,
                data_created_at |-> t,
                data_last_accessed |-> t,
                retention_expires_at |-> t + retention_days * SecondsPerDay,
                retention_status |-> "active",
                data_subject_id |-> data_subject_id,
                marked_for_deletion |-> FALSE,
                marked_for_deletion_at |-> NoTime,
                deletion_completed_at |-> NoTime,
                deletion_reason |-> None,
                updated_at |-> t]
    IN  [s EXCEPT !.retention = Append(@, row)]

\* create_retention_record without the lookup of an existing entry
create_retention_record_always_inserts(s, inventory_id, record_id, data_subject_id, t) ==
    insert_retention_record(s, inventory_id, record_id, data_subject_id, t)

create_retention_record(s, inventory_id, record_id, data_subject_id, t) ==
    LET existing == select_retention_record(s, inventory_id, record_id)
    IN  IF existing # 0
        THEN refresh_retention_record(s, existing, t)
        ELSE insert_retention_record(s, inventory_id, record_id,
                                     data_subject_id, t)

\* update_retention_access restarting the retention period at the access
update_retention_access_extends(s, record_id, t) ==
    [s EXCEPT !.retention =
        [i \in 1..Len(@) |->
            IF @[i].record_id = record_id
            THEN [@[i] EXCEPT !.data_last_accessed = t, !.updated_at = t,
                              !.retention_expires_at =
                                t + DEFAULT_RETENTION_DAYS * SecondsPerDay]
            ELSE @[i]]]

update_retention_access(s, record_id, t) ==
    [s EXCEPT !.retention =
        [i \in 1..Len(@) |->
            IF @[i].record_id = record_id
            THEN [@[i] EXCEPT !.data_last_accessed = t, !.updated_at = t]
            ELSE @[i]]]

mark_retention_deleted_restarts_expiry(s, record_id, deletion_reason, t) ==
    [s EXCEPT !.retention =
        [i \in 1..Len(@) |->
            IF @[i].record_id = record_id
            THEN [@[i] EXCEPT !.retention_status = "deleted",
                              !.marked_for_deletion = TRUE,
                              !.marked_for_deletion_at = At(t),
                              !.deletion_completed_at = At(t),
                              !.deletion_reason = deletion_reason,
                              !.retention_expires_at = t,
                              !.updated_at = t]
            ELSE @[i]]]

mark_retention_deleted(s, record_id, deletion_reason, t) ==
    [s EXCEPT !.retention =
        [i \in 1..Len(@) |->
            IF @[i].record_id = record_id
            THEN [@[i] EXCEPT !.retention_status = "deleted",
                              !.marked_for_deletion = TRUE,
                              !.marked_for_deletion_at = At(t),
                              !.deletion_completed_at = At(t),
                              !.deletion_reason = deletion_reason,
                              !.updated_at = t]
            ELSE @[i]]]

start_termination_retention_restarts_expiry(s, record_id, t) ==
    [s EXCEPT !.retention =
        [i \in 1..Len(@) |->
            IF @[i].record_id = record_id
            THEN [@[i] EXCEPT !.retention_status = "termination_retention",
                              !.retention_expires_at = @ + SecondsPerDay,
                              !.updated_at = t]
            ELSE @[i]]]

start_termination_retention(s, record_id, t) ==
    [s EXCEPT !.retention =
        [i \in 1..Len(@) |->
            IF @[i].record_id = record_id
            THEN [@[i] EXCEPT !.retention_status = "termination_retention",
                              !.updated_at = t]
            ELSE @[i]]]

----------------------------------------------------------------------------
(* ComplianceCacheService.  up is the result of _ensure_connected(); a key *)
(* is present while its expiry instant lies in the future.                 *)

NoKeys == [k \in {} |-> 0]
Live(cache, t) == Restrict(cache, {k \in DOMAIN cache : cache[k].exp > t})

is_duplicate_event_fails_closed(mk, key, up, t) ==
    IF ~up THEN TRUE ELSE key \in DOMAIN mk /\ mk[key].exp > t

is_duplicate_event(mk, key, up, t) ==
    IF ~up THEN FALSE ELSE key \in DOMAIN mk /\ mk[key].exp > t

mark_event_processed(mk, key, up, t) ==
    IF ~up THEN mk ELSE Put(mk, key, [val |-> "1", exp |-> t + CACHE_TTL_DEDUP])

invalidate_inventory_cache(ic, up) == IF ~up THEN ic ELSE NoKeys

invalidate_employee_data_cache(ec, employee_id, up) ==
    IF ~up THEN ec ELSE Restrict(ec, DOMAIN ec \ {employee_id})

\* invalidate_retention_cache deleting no key
invalidate_retention_cache_keeps(rc, up) == rc

invalidate_retention_cache(rc, up) == IF ~up THEN rc ELSE NoKeys

\* the counter name is "<name>:<today>", today being the date of t
increment_counter(ct, name, up, t) ==
    LET key == <<name, t \div SecondsPerDay>>
        old == IF key \in DOMAIN ct /\ ct[key].exp > t THEN ct[key].val ELSE 0
    IN  IF ~up THEN ct
        ELSE Put(ct, key, [val |-> old + 1, exp |-> t + COUNTER_TTL])

----------------------------------------------------------------------------
(* Event handlers.  c is the state a handler can change, env the envelope,  *)
(* up the cache's reachability, t the clock, db_ok whether the store        *)
(* transaction of this event goes through.  Each handler yields its         *)
(* outcome and the state it leaves:                                         *)
(*   deduped  dropped at the dedup gate                                     *)
(*   dropped  malformed (no identifying field), logged and dropped          *)
(*   applied  the transaction committed                                     *)
(*   failed   an exception was caught and logged by the handler             *)
(*   raised   an exception left the handler                                 *)
(*   ignored  no mapping for the event type (generic handler)               *)

Out(outcome, c) == [outcome |-> outcome, c |-> c]

\* handle_user_created_event marking the event before the transaction
handle_user_created_event_marks_first(c, env, up, t, db_ok) ==
    LET event_id == Or(env.event_id, DedupFallback(env, "user_id"))
        key == <<"user-created", event_id>>
        user_id == Or(env.f.user_id, env.f.id)
        inv == get_or_create_data_inventory(c.store, UserAccountData)
        s2 == create_retention_record(inv.s, inv.id, user_id, user_id, t)
        marked == [c EXCEPT !.markers = IF event_id # None
                                        THEN mark_event_processed(@, key, up, t)
                                        ELSE @]
    IN  IF DedupFallbackRaises(env) THEN Out("raised", c)
        ELSE IF event_id # None /\ is_duplicate_event(c.markers, key, up, t)
        THEN Out("deduped", c)
        ELSE IF PayloadRaises(env) THEN Out("raised", c)
        ELSE IF user_id = None THEN Out("dropped", c)
        ELSE IF ~db_ok THEN Out("failed", marked)
        ELSE Out("applied",
                 [marked EXCEPT
                    !.store = s2,
                    !.inventoryCache = invalidate_inventory_cache(@, up),
                    !.employeeDataCache =
                        invalidate_employee_data_cache(@, user_id, up),
                    !.counters = increment_counter(@, "data_collected", up, t)])

handle_user_created_event(c, env, up, t, db_ok) ==
    LET event_id == Or(env.event_id, DedupFallback(env, "user_id"))
        key == <<"user-created", event_id>>
        user_id == Or(env.f.user_id, env.f.id)
        inv == get_or_create_data_inventory(c.store, UserAccountData)
        s2 == create_retention_record(inv.s, inv.id, user_id, user_id, t)
    IN  IF DedupFallbackRaises(env) THEN Out("raised", c)
        ELSE IF event_id # None /\ is_duplicate_event(c.markers, key, up, t)
        THEN Out("deduped", c)
        ELSE IF PayloadRaises(env) THEN Out("raised", c)
        ELSE IF user_id = None THEN Out("dropped", c)
        ELSE IF ~db_ok THEN Out("failed", c)
        ELSE Out("applied",
                 [c EXCEPT
                    !.store = s2,
                    !.markers = IF event_id # None
                                THEN mark_event_processed(@, key, up, t)
                                ELSE @,
                    !.inventoryCache = invalidate_inventory_cache(@, up),
                    !.employeeDataCache =
                        invalidate_employee_data_cache(@, user_id, up),
                    !.counters = increment_counter(@, "data_collected", up, t)])

handle_user_updated_event_upserts(c, env, up, t, db_ok) ==
    LET user_id == Or(env.f.user_id, env.f.id)
        inv == get_or_create_data_inventory(c.store, UserAccountData)
    IN  IF PayloadRaises(env) THEN Out("raised", c)
        ELSE IF user_id = None THEN Out("dropped", c)
        ELSE IF ~db_ok THEN Out("failed", c)
        ELSE Out("applied",
                 [c EXCEPT
                    !.store = create_retention_record(inv.s, inv.id, user_id,
                                                      user_id, t),
                    !.employeeDataCache =
                        invalidate_employee_data_cache(@, user_id, up)])

handle_user_updated_event(c, env, up, t, db_ok) ==
    LET user_id == Or(env.f.user_id, env.f.id)
    IN  IF PayloadRaises(env) THEN Out("raised", c)
        ELSE IF user_id = None THEN Out("dropped", c)
        ELSE IF ~db_ok THEN Out("failed", c)
        ELSE Out("applied",
                 [c EXCEPT
                    !.store = update_retention_access(@, user_id, t),
                    !.employeeDataCache =
                        invalidate_employee_data_cache(@, user_id, up)])

\* _publish_data_deleted_event catches its own failures
publish_data_deleted_event(pub, record_id, data_type, reason, t, kafka_ok) ==
    IF ~kafka_ok THEN pub
    ELSE Append(pub, [event_type |-> "compliance-data-deleted",
                      record_id |-> record_id, data_type |-> data_type,
                      deletion_reason |-> reason,
                      deleted_at |-> t, deleted_by |-> "system"])

handle_user_deleted_event_publishes_first(c, env, up, t, db_ok, kafka_ok) ==
    LET user_id == Or(env.f.user_id, env.f.id)
        deletion_reason ==
            IF env.f.deletion_reason = None THEN "User account deletion"
            ELSE env.f.deletion_reason
        announced ==
            [c EXCEPT !.published =
                publish_data_deleted_event(@, user_id, "user",
                                           deletion_reason, t, kafka_ok)]
    IN  IF PayloadRaises(env) THEN Out("raised", c)
        ELSE IF user_id = None THEN Out("dropped", c)
        ELSE IF ~db_ok THEN Out("failed", announced)
        ELSE Out("applied",
                 [announced EXCEPT
                    !.store = mark_retention_deleted(@, user_id,
                                                     deletion_reason, t)])

handle_user_deleted_event(c, env, up, t, db_ok, kafka_ok) ==
    LET user_id == Or(env.f.user_id, env.f.id)
        deletion_reason ==
            IF env.f.deletion_reason = None THEN "User account deletion"
            ELSE env.f.deletion_reason
    IN  IF PayloadRaises(env) THEN Out("raised", c)
        ELSE IF user_id = None THEN Out("dropped", c)
        ELSE IF ~db_ok THEN Out("failed", c)
        ELSE Out("applied",
                 [c EXCEPT
                    !.store = mark_retention_deleted(@, user_id,
                                                     deletion_reason, t),
                    !.employeeDataCache =
                        invalidate_employee_data_cache(@, user_id, up),
                    !.retentionCache = invalidate_retention_cache(@, up),
                    !.counters = increment_counter(@, "data_deleted", up, t),
                    !.published =
                        publish_data_deleted_event(@, user_id, "user",
                                                   deletion_reason, t,
                                                   kafka_ok)])

handle_employee_created_event(c, env, up, t, db_ok) ==
    LET event_id == Or(env.event_id, DedupFallback(env, "employee_id"))
        key == <<"employee-created", event_id>>
        employee_id == Or(env.f.employee_id, env.f.id)
        user_id == env.f.user_id
        inv == get_or_create_data_inventory(c.store, EmployeePersonalData)
        s2 == create_retention_record(inv.s, inv.id, employee_id,
                                      Or(user_id, employee_id), t)
    IN  IF DedupFallbackRaises(env) THEN Out("raised", c)
        ELSE IF event_id # None /\ is_duplicate_event(c.markers, key, up, t)
        THEN Out("deduped", c)
        ELSE IF PayloadRaises(env) THEN Out("raised", c)
        ELSE IF employee_id = None THEN Out("dropped", c)
        ELSE IF ~db_ok THEN Out("failed", c)
        ELSE Out("applied",
                 [c EXCEPT
                    !.store = s2,
                    !.markers = IF event_id # None
                                THEN mark_event_processed(@, key, up, t)
                                ELSE @,
                    !.inventoryCache = invalidate_inventory_cache(@, up),
                    !.employeeDataCache =
                        IF user_id # None
                        THEN invalidate_employee_data_cache(@, user_id, up)
                        ELSE @,
                    !.counters = increment_counter(@, "data_collected", up, t)])

handle_employee_updated_event(c, env, up, t, db_ok) ==
    LET employee_id == Or(env.f.employee_id, env.f.id)
        user_id == env.f.user_id
    IN  IF PayloadRaises(env) THEN Out("raised", c)
        ELSE IF employee_id = None THEN Out("dropped", c)
        ELSE IF ~db_ok THEN Out("failed", c)
        ELSE Out("applied",
                 [c EXCEPT
                    !.store = update_retention_access(@, employee_id, t),
                    !.employeeDataCache =
                        IF user_id # None
                        THEN invalidate_employee_data_cache(@, user_id, up)
                        ELSE @])

handle_employee_terminated_event(c, env, up, t, db_ok) ==
    LET employee_id == Or(env.f.employee_id, env.f.id)
        user_id == env.f.user_id
    IN  IF PayloadRaises(env) THEN Out("raised", c)
        ELSE IF employee_id = None THEN Out("dropped", c)
        ELSE IF ~db_ok THEN Out("failed", c)
        ELSE Out("applied",
                 [c EXCEPT
                    !.store = start_termination_retention(@, employee_id, t),
                    !.retentionCache = invalidate_retention_cache(@, up),
                    !.employeeDataCache =
                        IF user_id # None
                        THEN invalidate_employee_data_cache(@, user_id, up)
                        ELSE @])

\* the common shape of the attendance, leave and notification handlers
track_record(c, m, subject_id, record_id, counter, up, t, db_ok) ==
    LET inv == get_or_create_data_inventory(c.store, m)
        s2 == IF record_id # None
              THEN create_retention_record(inv.s, inv.id, record_id,
                                           subject_id, t)
              ELSE inv.s
    IN  IF subject_id = None THEN Out("dropped", c)
        ELSE IF ~db_ok THEN Out("failed", c)
        ELSE Out("applied",
                 [c EXCEPT !.store = s2,
                           !.counters = increment_counter(@, counter, up, t)])

handle_attendance_event(c, env, up, t, db_ok) ==
    IF PayloadRaises(env) THEN Out("raised", c)
    ELSE track_record(c, AttendanceRecords, env.f.employee_id,
                      Or(env.f.attendance_id, env.f.id),
                      "attendance_records", up, t, db_ok)

handle_leave_event(c, env, up, t, db_ok) ==
    IF PayloadRaises(env) THEN Out("raised", c)
    ELSE track_record(c, LeaveRecords, env.f.employee_id,
                      Or(env.f.leave_id, env.f.id),
                      "leave_records", up, t, db_ok)

handle_notification_event(c, env, up, t, db_ok) ==
    IF PayloadRaises(env) THEN Out("raised", c)
    ELSE track_record(c, CommunicationRecords,
                      Or(env.f.recipient_id, env.f.employee_id),
                      Or(env.f.notification_id, env.f.id),
                      "notifications_tracked", up, t, db_ok)

\* handle_generic_event counting the events it has no mapping for
handle_generic_event_counts_unmapped(c, env, topic, up, t, db_ok) ==
    Out("ignored",
        [c EXCEPT !.counters = increment_counter(@, "unmapped", up, t)])

handle_generic_event_prefers_user_id(c, env, topic, up, t, db_ok) ==
    LET event_type == IF env.event_type = None THEN topic ELSE env.event_type
        mapping == DATA_INVENTORY_MAPPING[event_type]
        record_id == Or(env.f.user_id, Or(env.f.id, Or(env.f.employee_id,
                        Or(env.f.attendance_id, env.f.leave_id))))
        inv == get_or_create_data_inventory(c.store, mapping)
        s2 == create_retention_record(inv.s, inv.id, record_id,
                                      Or(env.f.user_id, env.f.employee_id), t)
    IN  IF event_type \notin DOMAIN DATA_INVENTORY_MAPPING
        THEN Out("ignored", c)
        ELSE IF PayloadRaises(env) THEN Out("raised", c)
        ELSE IF record_id = None THEN Out("dropped", c)
        ELSE IF ~db_ok THEN Out("failed", c)
        ELSE Out("applied", [c EXCEPT !.store = s2])

handle_generic_event(c, env, topic, up, t, db_ok) ==
    LET event_type == IF env.event_type = None THEN topic ELSE env.event_type
        mapping == DATA_INVENTORY_MAPPING[event_type]
        record_id == Or(env.f.id, Or(env.f.user_id, Or(env.f.employee_id,
                        Or(env.f.attendance_id, env.f.leave_id))))
        inv == get_or_create_data_inventory(c.store, mapping)
        s2 == create_retention_record(inv.s, inv.id, record_id,
                                      Or(env.f.user_id, env.f.employee_id), t)
    IN  IF event_type \notin DOMAIN DATA_INVENTORY_MAPPING
        THEN Out("ignored", c)
        ELSE IF PayloadRaises(env) THEN Out("raised", c)
        ELSE IF record_id = None THEN Out("dropped", c)
        ELSE IF ~db_ok THEN Out("failed", c)
        ELSE Out("applied", [c EXCEPT !.store = s2])

----------------------------------------------------------------------------
(* GET /compliance/data-retention-report *)

RETENTION_REPORT_ROLES == {"HR_Admin", "HR_Manager"}
can_view_retention_reports(role) == role \in RETENTION_REPORT_ROLES

\* dict.get(key): None when the key is missing
Get(item, key) == IF key \in DOMAIN item THEN item[key] ELSE None

filter_retention_report_for_role(retention_items, actor_id, role) ==
    IF role = "HR_Admin" THEN retention_items
    ELSE IF role = "HR_Manager"
    THEN SelectSeq(retention_items,
                   LAMBDA item : Get(item, "data_subject_role")
                                    \notin {"HR_Admin", "HR_Manager"})
    ELSE SelectSeq(retention_items,
                   LAMBDA item : Get(item, "data_subject") = actor_id)

\* Days with a negative difference reported as 0
Days_clamped(seconds) ==
    IF seconds < 0 THEN 0 ELSE seconds \div SecondsPerDay

\* timedelta.days: whole days, rounded towards minus infinity
Days(seconds) == seconds \div SecondsPerDay

\* the row of the report for one retention record
retention_item(s, record, t) ==
    [id |-> record.id,
     data_name |-> s.inventory[record.data_inventory_id].data_name,
     record_id |-> record.record_id,
     data_created_at |-> record.data_created_at,
     retention_expires_at |-> record.retention_expires_at,
     days_until_deletion |-> Days(record.retention_expires_at - t),
     data_age_days |-> Days(t - record.data_created_at),
     category |-> s.inventory[record.data_inventory_id].data_type,
     data_subject |-> record.data_subject_id,
     status |-> record.retention_status,
     marked_for_deletion |-> record.marked_for_deletion]

\* categorize with the threshold instant itself left out of expiring_soon
categorize_exclusive_threshold(record, t, days_threshold) ==
    LET threshold_date == t + days_threshold * SecondsPerDay
    IN  IF record.deletion_completed_at # NoTime THEN "deleted"
        ELSE IF record.retention_status = "expired"
                \/ t > record.retention_expires_at THEN "expired"
        ELSE IF record.retention_expires_at < threshold_date
        THEN "expiring_soon"
        ELSE "active"

\* the if/elif chain that sorts a record into one of the four lists
categorize(record, t, days_threshold) ==
    LET threshold_date == t + days_threshold * SecondsPerDay
    IN  IF record.deletion_completed_at # NoTime THEN "deleted"
        ELSE IF record.retention_status = "expired"
                \/ t > record.retention_expires_at THEN "expired"
        ELSE IF record.retention_expires_at <= threshold_date
        THEN "expiring_soon"
        ELSE "active"

\* the records whose inventory entry exists, in query order
Reported(s) ==
    SelectSeq(s.retention,
               LAMBDA r : r.data_inventory_id \in 1..Len(s.inventory))

\* ItemsOf with four independent tests in place of the if/elif chain
ItemsOf_independent_tests(s, t, days_threshold, bucket) ==
    LET threshold_date == t + days_threshold * SecondsPerDay
        in(r) ==
            CASE bucket = "deleted" -> r.deletion_completed_at # NoTime
              [] bucket = "expired" -> \/ r.retention_status = "expired"
                                       \/ t > r.retention_expires_at
              [] bucket = "expiring_soon" ->
                    r.retention_expires_at <= threshold_date
              [] OTHER -> r.retention_expires_at > threshold_date
        rows == SelectSeq(Reported(s), in)
    IN  [i \in 1..Len(rows) |-> retention_item(s, rows[i], t)]

ItemsOf(s, t, days_threshold, bucket) ==
    LET rows == SelectSeq(Reported(s),
                    LAMBDA r : categorize(r, t, days_threshold) = bucket)
    IN  [i \in 1..Len(rows) |-> retention_item(s, rows[i], t)]

build_retention_report_counts_listed(s, t, status, days_threshold) ==
    LET active_records == ItemsOf(s, t, days_threshold, "active")
        expiring_soon == ItemsOf(s, t, days_threshold, "expiring_soon")
        expired_records == ItemsOf(s, t, days_threshold, "expired")
        deleted_records == ItemsOf(s, t, days_threshold, "deleted")
        everything == active_records \o expiring_soon \o expired_records
                        \o deleted_records
        all_items ==
            CASE status = "active" -> active_records
              [] status = "expiring_soon" -> expiring_soon
              [] status = "expired" -> expired_records
              [] status = "deleted" -> deleted_records
              [] OTHER -> everything
        cats == {everything[i].category : i \in 1..Len(everything)}
        count(list, cat) ==
            Cardinality({i \in 1..Len(list) : list[i].category = cat})
    IN  [total_records_tracked |-> Len(all_items),
         active_records |-> Len(active_records),
         expiring_soon |-> Len(expiring_soon),
         expired_records |-> Len(expired_records),
         deleted_records |-> Len(deleted_records),
         marked_for_deletion |->
            Cardinality({i \in 1..Len(s.retention) :
                            s.retention[i].marked_for_deletion}),
         action_items |->
            [delete_immediately |-> Len(expired_records),
             delete_within_days |-> Len(expiring_soon),
             urgent_action_required |-> Len(expired_records) > 0],
         retention_items |-> all_items,
         summary_by_category |->
            [cat \in cats |->
                [total |-> count(everything, cat),
                 active |-> count(active_records, cat),
                 expiring_soon |-> count(expiring_soon, cat),
                 expired |-> count(expired_records, cat),
                 deleted |-> count(deleted_records, cat)]],
         report_generated_at |-> t,
         threshold_days |-> days_threshold]

build_retention_report(s, t, status, days_threshold) ==
    LET active_records == ItemsOf(s, t, days_threshold, "active")
        expiring_soon == ItemsOf(s, t, days_threshold, "expiring_soon")
        expired_records == ItemsOf(s, t, days_threshold, "expired")
        deleted_records == ItemsOf(s, t, days_threshold, "deleted")
        everything == active_records \o expiring_soon \o expired_records
                        \o deleted_records
        all_items ==
            CASE status = "active" -> active_records
              [] status = "expiring_soon" -> expiring_soon
              [] status = "expired" -> expired_records
              [] status = "deleted" -> deleted_records
              [] OTHER -> everything
        cats == {everything[i].category : i \in 1..Len(everything)}
        count(list, cat) ==
            Cardinality({i \in 1..Len(list) : list[i].category = cat})
    IN  [total_records_tracked |-> Len(s.retention),
         active_records |-> Len(active_records),
         expiring_soon |-> Len(expiring_soon),
         expired_records |-> Len(expired_records),
         deleted_records |-> Len(deleted_records),
         marked_for_deletion |->
            Cardinality({i \in 1..Len(s.retention) :
                            s.retention[i].marked_for_deletion}),
         action_items |->
            [delete_immediately |-> Len(expired_records),
             delete_within_days |-> Len(expiring_soon),
             urgent_action_required |-> Len(expired_records) > 0],
         retention_items |-> all_items,
         summary_by_category |->
            [cat \in cats |->
                [total |-> count(everything, cat),
                 active |-> count(active_records, cat),
                 expiring_soon |-> count(expiring_soon, cat),
                 expired |-> count(expired_records, cat),
                 deleted |-> count(deleted_records, cat)]],
         report_generated_at |-> t,
         threshold_days |-> days_threshold]

get_retention_report(rc, status, days_threshold, up, t) ==
    LET key == <<status, days_threshold>>
    IN  IF up /\ key \in DOMAIN rc /\ rc[key].exp > t
        THEN <<rc[key].val>> ELSE << >>

set_retention_report(rc, result, status, days_threshold, up, t) ==
    IF ~up THEN rc
    ELSE Put(rc, <<status, days_threshold>>,
             [val |-> result, exp |-> t + CACHE_TTL_RETENTION])

\* the cache lookup yields <<payload>> on a hit and << >> on a miss; the
\* request yields the response and the cache it leaves
get_data_retention_report(s, rc, viewer, status, days_threshold, up, t) ==
    LET cached_result == get_retention_report(rc, status, days_threshold,
                                              up, t)
        result == build_retention_report(s, t, status, days_threshold)
        respond(body, from_cache) ==
            [status_code |-> 200, route |-> "data-retention-report",
             from_cache |-> from_cache,
             status |-> status, days_threshold |-> days_threshold,
             viewer |-> viewer,
             body |-> [body EXCEPT !.retention_items =
                        filter_retention_report_for_role(@, viewer.sub,
                                                         viewer.role)]]
    IN  IF ~can_view_retention_reports(viewer.role)
        THEN [response |-> [status_code |-> 403,
                            route |-> "data-retention-report",
                            from_cache |-> FALSE, status |-> status,
                            days_threshold |-> days_threshold,
                            viewer |-> viewer, body |-> << >>],
              rc |-> rc]
        ELSE IF cached_result # << >>
        THEN [response |-> respond(cached_result[1], TRUE), rc |-> rc]
        ELSE [response |-> respond(result, FALSE),
              rc |-> set_retention_report(rc, result, status,
                                          days_threshold, up, t)]

----------------------------------------------------------------------------
(* GET /compliance/data-inventory and                                      *)
(* GET /compliance/employee/{employee_id}/data-about-me                    *)

\* a cache read: <<payload>> on a hit, << >> on a miss
get_cached_unguarded(cache, key, up, t) ==
    IF key \in DOMAIN cache /\ cache[key].exp > t
    THEN <<cache[key].val>> ELSE << >>

get_cached(cache, key, up, t) ==
    IF up /\ key \in DOMAIN cache /\ cache[key].exp > t
    THEN <<cache[key].val>> ELSE << >>

set_cached(cache, key, result, ttl, up, t) ==
    IF ~up THEN cache ELSE Put(cache, key, [val |-> result, exp |-> t + ttl])

DATA_INVENTORY_ROLES == {"HR_Admin", "HR_Manager"}
can_view_data_inventory(role) == role \in DATA_INVENTORY_ROLES

filter_data_inventory_for_role_lets_restricted(inventory_items, role) ==
    IF role \in {"HR_Admin", "HR_Manager"} THEN inventory_items
    ELSE SelectSeq(inventory_items,
                   LAMBDA item : item.access_control_level
                                    \in {"public", "internal", "restricted"})

filter_data_inventory_for_role(inventory_items, role) ==
    IF role = "HR_Admin" THEN inventory_items
    ELSE IF role = "HR_Manager"
    THEN SelectSeq(inventory_items,
                   LAMBDA item : \/ item.access_control_level # "confidential"
                                 \/ item.data_type # "admin")
    ELSE SelectSeq(inventory_items,
                   LAMBDA item : item.access_control_level
                                    \in {"public", "internal"})

\* the unfiltered result for the first page and no category filter
build_data_inventory(s, data_type, t) ==
    LET inventory_list ==
            SelectSeq(s.inventory,
                      LAMBDA item : data_type = None
                                    \/ item.data_type = data_type)
    IN  [count |-> Len(inventory_list),
         inventory |-> inventory_list,
         categories |-> s.categories,
         report_generated_at |-> t]

\* get_data_inventory storing in the cache what the viewer is sent
get_data_inventory_caches_filtered(s, ic, viewer, data_type, up, t) ==
    LET key == <<None, data_type, "skip 0", "limit 100">>
        cached_result == get_cached(ic, key, up, t)
        result == build_data_inventory(s, data_type, t)
        sent == [result EXCEPT !.inventory =
                    filter_data_inventory_for_role(@, viewer.role)]
        respond(body, from_cache) ==
            [status_code |-> 200, route |-> "data-inventory",
             from_cache |-> from_cache, data_type |-> data_type,
             viewer |-> viewer, body |-> body]
    IN  IF ~can_view_data_inventory(viewer.role)
        THEN [response |-> [status_code |-> 403, route |-> "data-inventory",
                            from_cache |-> FALSE, data_type |-> data_type,
                            viewer |-> viewer, body |-> << >>],
              ic |-> ic]
        ELSE IF cached_result # << >>
        THEN [response |-> respond(cached_result[1], TRUE), ic |-> ic]
        ELSE [response |-> respond(sent, FALSE),
              ic |-> set_cached(ic, key, sent, CACHE_TTL_INVENTORY, up, t)]

get_data_inventory(s, ic, viewer, data_type, up, t) ==
    LET key == <<None, data_type, "skip 0", "limit 100">>
        cached_result == get_cached(ic, key, up, t)
        result == build_data_inventory(s, data_type, t)
        respond(body, from_cache) ==
            [status_code |-> 200, route |-> "data-inventory",
             from_cache |-> from_cache, data_type |-> data_type,
             viewer |-> viewer,
             body |-> [body EXCEPT !.inventory =
                        filter_data_inventory_for_role(@, viewer.role)]]
    IN  IF ~can_view_data_inventory(viewer.role)
        THEN [response |-> [status_code |-> 403, route |-> "data-inventory",
                            from_cache |-> FALSE, data_type |-> data_type,
                            viewer |-> viewer, body |-> << >>],
              ic |-> ic]
        ELSE IF cached_result # << >>
        THEN [response |-> respond(cached_result[1], TRUE), ic |-> ic]
        ELSE [response |-> respond(result, FALSE),
              ic |-> set_cached(ic, key, result, CACHE_TTL_INVENTORY, up, t)]

can_view_employee_data_about_me_by_team(actor_id, actor_role, target_employee_id) ==
    \/ actor_id = target_employee_id
    \/ actor_role \in {"HR_Admin", "HR_Manager", "manager"}

can_view_employee_data_about_me(actor_id, actor_role, target_employee_id) ==
    \/ actor_id = target_employee_id
    \/ actor_role \in {"HR_Admin", "HR_Manager"}

\* the summary of the ledger entries whose data subject is employee_id
build_employee_data_summary(s, employee_id, t) ==
    LET retention_records ==
            SelectSeq(s.retention,
                      LAMBDA r : r.data_subject_id = employee_id)
        known == SelectSeq(retention_records,
                    LAMBDA r : r.data_inventory_id \in 1..Len(s.inventory))
        names == {s.inventory[known[i].data_inventory_id].data_name :
                    i \in 1..Len(known)}
        first(name) ==
            known[Min({i \in 1..Len(known) :
                s.inventory[known[i].data_inventory_id].data_name = name})]
        deletion_dates == {retention_records[i].retention_expires_at :
                            i \in 1..Len(retention_records)}
    IN  [employee_id |-> employee_id,
         total_data_entries |-> Len(retention_records),
         data_categories |->
            {s.inventory[i].data_type : i \in 1..Len(s.inventory)},
         retention_policies |->
            [name \in names |->
                [data_type |-> s.inventory[first(name).data_inventory_id]
                                    .data_type,
                 deletion_date |-> first(name).retention_expires_at]],
         next_scheduled_deletion |->
            IF deletion_dates = {} THEN NoTime
            ELSE At(Min(deletion_dates)),
         report_generated_at |-> t]

get_employee_data_about_me_cache_first(s, ec, viewer, employee_id, up, t) ==
    LET cached_result == get_cached(ec, employee_id, up, t)
        result == build_employee_data_summary(s, employee_id, t)
        respond(body, from_cache) ==
            [status_code |-> 200, route |-> "data-about-me",
             from_cache |-> from_cache, employee_id |-> employee_id,
             viewer |-> viewer, body |-> body]
    IN  IF cached_result # << >>
        THEN [response |-> respond(cached_result[1], TRUE), ec |-> ec]
        ELSE IF ~can_view_employee_data_about_me(viewer.sub, viewer.role,
                                                 employee_id)
        THEN [response |-> [status_code |-> 403, route |-> "data-about-me",
                            from_cache |-> FALSE,
                            employee_id |-> employee_id,
                            viewer |-> viewer, body |-> << >>],
              ec |-> ec]
        ELSE [response |-> respond(result, FALSE),
              ec |-> set_cached(ec, employee_id, result,
                                CACHE_TTL_EMPLOYEE_DATA, up, t)]

get_employee_data_about_me(s, ec, viewer, employee_id, up, t) ==
    LET cached_result == get_cached(ec, employee_id, up, t)
        result == build_employee_data_summary(s, employee_id, t)
        respond(body, from_cache) ==
            [status_code |-> 200, route |-> "data-about-me",
             from_cache |-> from_cache, employee_id |-> employee_id,
             viewer |-> viewer, body |-> body]
    IN  IF ~can_view_employee_data_about_me(viewer.sub, viewer.role,
                                            employee_id)
        THEN [response |-> [status_code |-> 403, route |-> "data-about-me",
                            from_cache |-> FALSE,
                            employee_id |-> employee_id,
                            viewer |-> viewer, body |-> << >>],
              ec |-> ec]
        ELSE IF cached_result # << >>
        THEN [response |-> respond(cached_result[1], TRUE), ec |-> ec]
        ELSE [response |-> respond(result, FALSE),
              ec |-> set_cached(ec, employee_id, result,
                                CACHE_TTL_EMPLOYEE_DATA, up, t)]

----------------------------------------------------------------------------
(* The consumer loop: TOPIC_HANDLERS routes an envelope to its handler.    *)

TOPIC_HANDLERS ==
    [topic \in {"user-created", "user-updated", "user-deleted",
                "user-suspended", "user-activated", "user-role-changed",
                "user-onboarding-initiated", "user-onboarding-completed",
                "user-onboarding-failed", "employee-created",
                "employee-updated", "employee-deleted",
                "employee-terminated", "employee-promoted",
                "employee-transferred", "employee-salary-updated",
                "employee-salary-increment", "employee-contract-started",
                "employee-contract-renewed", "employee-contract-ended",
                "employee-probation-started", "employee-probation-completed",
                "attendance-checkin", "attendance-checkout",
                "attendance-updated", "leave-requested", "leave-approved",
                "leave-rejected", "leave-cancelled", "notification-sent",
                "notification-failed"} |->
        CASE topic \in {"user-created", "user-onboarding-initiated"} ->
                "user_created"
          [] topic \in {"user-updated", "user-suspended", "user-activated",
                        "user-role-changed", "user-onboarding-completed"} ->
                "user_updated"
          [] topic \in {"user-deleted", "employee-deleted"} -> "user_deleted"
          [] topic = "user-onboarding-failed" -> "generic"
          [] topic = "employee-created" -> "employee_created"
          [] topic \in {"employee-terminated", "employee-contract-ended"} ->
                "employee_terminated"
          [] topic \in {"attendance-checkin", "attendance-checkout",
                        "attendance-updated"} -> "attendance"
          [] topic \in {"leave-requested", "leave-approved", "leave-rejected",
                        "leave-cancelled"} -> "leave"
          [] topic \in {"notification-sent", "notification-failed"} ->
                "notification"
          [] OTHER -> "employee_updated"]

Run(handler, c, env, topic, up, t, db_ok, kafka_ok) ==
    CASE handler = "user_created" ->
            handle_user_created_event(c, env, up, t, db_ok)
      [] handler = "user_updated" ->
            handle_user_updated_event(c, env, up, t, db_ok)
      [] handler = "user_deleted" ->
            handle_user_deleted_event(c, env, up, t, db_ok, kafka_ok)
      [] handler = "employee_created" ->
            handle_employee_created_event(c, env, up, t, db_ok)
      [] handler = "employee_updated" ->
            handle_employee_updated_event(c, env, up, t, db_ok)
      [] handler = "employee_terminated" ->
            handle_employee_terminated_event(c, env, up, t, db_ok)
      [] handler = "attendance" ->
            handle_attendance_event(c, env, up, t, db_ok)
      [] handler = "leave" -> handle_leave_event(c, env, up, t, db_ok)
      [] handler = "notification" ->
            handle_notification_event(c, env, up, t, db_ok)
      [] OTHER -> handle_generic_event(c, env, topic, up, t, db_ok)

\* the key the dedup gate of a handler uses for an envelope, << >> if none
DedupKey(handler, env) ==
    LET field == IF handler = "user_created" THEN "user_id" ELSE "employee_id"
        prefix == IF handler = "user_created" THEN "user-created"
                  ELSE "employee-created"
        event_id == Or(env.event_id, DedupFallback(env, field))
    IN  IF handler \in {"user_created", "employee_created"}
           /\ event_id # None
        THEN <<prefix, event_id>> ELSE << >>

----------------------------------------------------------------------------
(* The state machine *)

NoEvent == [handler |-> "none", topic |-> None,
            env |-> Envelope(None, None, "null", BlankFields),
            outcome |-> "none", up |-> TRUE, cached |-> {}]
NoReport == [status_code |-> 0]

Handled == [store |-> store, markers |-> markers, counters |-> counters,
            retentionCache |-> retentionCache,
            inventoryCache |-> inventoryCache,
            employeeDataCache |-> employeeDataCache,
            published |-> published]

Init ==
    /\ now = 0
    /\ ticks = 0
    /\ store = EmptyStore
    /\ redis_up = TRUE
    /\ markers = NoKeys
    /\ counters = NoKeys
    /\ retentionCache = NoKeys
    /\ inventoryCache = NoKeys
    /\ employeeDataCache = NoKeys
    /\ published = << >>
    /\ delivered = 0
    /\ last = NoEvent
    /\ committed = {}
    /\ lastReport = NoReport
    /\ workers = << >>

\* the consumer loop takes one envelope from a topic and calls its handler
Deliver(bound, topic, env, db_ok, kafka_ok) ==
    LET handler == TOPIC_HANDLERS[topic]
        out == Run(handler, Handled, env, topic, redis_up, now, db_ok,
                   kafka_ok)
        key == DedupKey(handler, env)
    IN  /\ delivered < bound
        /\ delivered' = delivered + 1
        /\ store' = out.c.store
        /\ markers' = out.c.markers
        /\ counters' = out.c.counters
        /\ retentionCache' = out.c.retentionCache
        /\ inventoryCache' = out.c.inventoryCache
        /\ employeeDataCache' = out.c.employeeDataCache
        /\ published' = out.c.published
        /\ last' = [handler |-> handler, topic |-> topic, env |-> env,
                    outcome |-> out.outcome, up |-> redis_up,
                    cached |-> DOMAIN Live(retentionCache, now)]
        /\ committed' = IF out.outcome = "applied" /\ key # << >>
                        THEN committed \cup {key} ELSE committed
        /\ lastReport' = NoReport
        /\ UNCHANGED <<now, ticks, redis_up, workers>>

Consume(bound, topic, envs, dbs, kafkas) ==
    \E env \in envs, db_ok \in dbs, kafka_ok \in kafkas :
        Deliver(bound, topic, env, db_ok, kafka_ok)

\* time passes; keys whose time to live has run out are gone
Advance(steps) ==
    /\ ticks < MaxTicks
    /\ \E d \in steps :
        /\ now' = now + d
        /\ markers' = Live(markers, now + d)
        /\ counters' = Live(counters, now + d)
        /\ retentionCache' = Live(retentionCache, now + d)
        /\ inventoryCache' = Live(inventoryCache, now + d)
        /\ employeeDataCache' = Live(employeeDataCache, now + d)
    /\ ticks' = ticks + 1
    /\ lastReport' = NoReport
    /\ UNCHANGED <<store, redis_up, published, delivered, last, committed,
                   workers>>

\* the cache becomes unreachable, or reachable again
RedisFlip ==
    /\ redis_up' = ~redis_up
    /\ lastReport' = NoReport
    /\ UNCHANGED <<now, ticks, store, markers, counters, retentionCache,
                   inventoryCache, employeeDataCache, published, delivered,
                   last, committed, workers>>

Query(viewers, statuses, thresholds) ==
    \E viewer \in viewers, status \in statuses, days_threshold \in thresholds :
        LET r == get_data_retention_report(store, retentionCache, viewer,
                                           status, days_threshold,
                                           redis_up, now)
        IN  /\ lastReport' = r.response
            /\ retentionCache' = r.rc
            /\ UNCHANGED <<now, ticks, store, redis_up, markers, counters,
                           inventoryCache, employeeDataCache, published,
                           delivered, last, committed, workers>>

InventoryQuery(viewers, data_types) ==
    \E viewer \in viewers, data_type \in data_types :
        LET r == get_data_inventory(store, inventoryCache, viewer, data_type,
                                    redis_up, now)
        IN  /\ lastReport' = r.response
            /\ inventoryCache' = r.ic
            /\ UNCHANGED <<now, ticks, store, redis_up, markers, counters,
                           retentionCache, employeeDataCache, published,
                           delivered, last, committed, workers>>

AboutMe(viewers, employees) ==
    \E viewer \in viewers, employee_id \in employees :
        LET r == get_employee_data_about_me(store, employeeDataCache, viewer,
                                            employee_id, redis_up, now)
        IN  /\ lastReport' = r.response
            /\ employeeDataCache' = r.ec
            /\ UNCHANGED <<now, ticks, store, redis_up, markers, counters,
                           retentionCache, inventoryCache, published,
                           delivered, last, committed, workers>>

----------------------------------------------------------------------------
(* Spec: the dispatcher over every handler.  The envelopes are a           *)
(* well-formed one, one without any identifying field and one whose        *)
(* payload is null; the store may fail any transaction.                    *)

F(field, v) == [BlankFields EXCEPT ![field] = v]
Dict(event_type, event_id, f) == Envelope(event_id, event_type, "dict", f)
Null(event_type, event_id) == Envelope(event_id, event_type, "null",
                                       BlankFields)

UserEnvelopes(event_type) ==
    {Dict(event_type, "e1", F("user_id", "u1")),
     Dict(event_type, "e1", BlankFields),
     Null(event_type, "e1")}
EmployeeEnvelopes(event_type) ==
    {Dict(event_type, "e1", F("employee_id", "u1")),
     Dict(event_type, "e1", F("id", "u1")),
     Dict(event_type, "e1", BlankFields),
     Null(event_type, "e1")}
RecordEnvelopes(event_type, field) ==
    {Dict(event_type, "e1", [F("employee_id", "u1") EXCEPT ![field] = "u2"]),
     Dict(event_type, "e1", F(field, "u2")),
     Null(event_type, "e1")}
GenericEnvelopes ==
    {Dict("employee-salary-updated", "e1", F("employee_id", "u1")),
     Dict("employee-salary-updated", "e1", BlankFields),
     Null("employee-salary-updated", "e1"),
     Dict("payroll-export-generated", "e1", F("employee_id", "u1")),
     Null("payroll-export-generated", "e1"),
     Dict(None, "e1", F("employee_id", "u1"))}

UserCreated ==
    Consume(MaxEvents, "user-created",
            UserEnvelopes("user-created")
                \cup {Dict("user-created", None, F("user_id", "u1")),
                      Null("user-created", None)},
            BOOLEAN, {TRUE})
UserUpdated ==
    Consume(MaxEvents, "user-updated", UserEnvelopes("user-updated"),
            BOOLEAN, {TRUE})
UserDeleted ==
    Consume(MaxEvents, "user-deleted", UserEnvelopes("user-deleted"),
            BOOLEAN, BOOLEAN)
EmployeeCreated ==
    Consume(MaxEvents, "employee-created",
            EmployeeEnvelopes("employee-created"), BOOLEAN, {TRUE})
EmployeeUpdated ==
    Consume(MaxEvents, "employee-updated",
            EmployeeEnvelopes("employee-updated"), BOOLEAN, {TRUE})
EmployeeTerminated ==
    Consume(MaxEvents, "employee-terminated",
            EmployeeEnvelopes("employee-terminated"), BOOLEAN, {TRUE})
Attendance ==
    Consume(MaxEvents, "attendance-checkin",
            RecordEnvelopes("attendance-checkin", "attendance_id"),
            BOOLEAN, {TRUE})
Leave ==
    Consume(MaxEvents, "leave-requested",
            RecordEnvelopes("leave-requested", "leave_id"), BOOLEAN, {TRUE})
Notification ==
    Consume(MaxEvents, "notification-sent",
            RecordEnvelopes("notification-sent", "notification_id"),
            BOOLEAN, {TRUE})
Generic ==
    Consume(MaxEvents, "user-onboarding-failed", GenericEnvelopes, BOOLEAN,
            {TRUE})
Tick == Advance({HalfDay})

Next ==
    \/ UserCreated
    \/ UserUpdated
    \/ UserDeleted
    \/ EmployeeCreated
    \/ EmployeeUpdated
    \/ EmployeeTerminated
    \/ Attendance
    \/ Leave
    \/ Notification
    \/ Generic
    \/ Tick
    \/ RedisFlip

Spec == Init /\ [][Next]_vars

----------------------------------------------------------------------------
(* SpecLedger: the life of retention entries.  Well-formed creation,       *)
(* update, termination and deletion events for two record ids, with the    *)
(* store and the cache up, over half a day or a whole retention period.    *)

LedgerIds(event_type, field) ==
    {Dict(event_type, "e1", F(field, x)) : x \in Ids}

LedgerUserCreated ==
    Consume(MaxLedgerEvents, "user-created",
            {Dict("user-created", None, F("user_id", x)) : x \in Ids},
            {TRUE}, {TRUE})
LedgerEmployeeCreated ==
    Consume(MaxLedgerEvents, "employee-created",
            {Dict("employee-created", None, F("employee_id", "u1"))},
            {TRUE}, {TRUE})
LedgerAttendance ==
    Consume(MaxLedgerEvents, "attendance-checkin",
            {Dict("attendance-checkin", "e1",
                  [F("employee_id", "u1") EXCEPT !.attendance_id = "u2"])},
            {TRUE}, {TRUE})
LedgerGeneric ==
    Consume(MaxLedgerEvents, "user-onboarding-failed",
            {Dict("user-updated", "e1", F("user_id", "u1"))},
            {TRUE}, {TRUE})
LedgerUserUpdated ==
    Consume(MaxLedgerEvents, "user-updated",
            LedgerIds("user-updated", "user_id"), {TRUE}, {TRUE})
LedgerUserDeleted ==
    Consume(MaxLedgerEvents, "user-deleted",
            {Dict("user-deleted", "e1",
                  [F("user_id", "u1") EXCEPT !.deletion_reason = r]) :
                r \in Reasons}
                \cup {Dict("user-deleted", "e1", F("user_id", "u2"))},
            {TRUE}, {TRUE})
LedgerEmployeeTerminated ==
    Consume(MaxLedgerEvents, "employee-terminated",
            LedgerIds("employee-terminated", "employee_id"), {TRUE}, {TRUE})
LedgerTick == Advance(TickSteps)

LedgerNext ==
    \/ LedgerUserCreated
    \/ LedgerEmployeeCreated
    \/ LedgerAttendance
    \/ LedgerGeneric
    \/ LedgerUserUpdated
    \/ LedgerUserDeleted
    \/ LedgerEmployeeTerminated
    \/ LedgerTick

SpecLedger == Init /\ [][LedgerNext]_vars

----------------------------------------------------------------------------
(* SpecReport: the retention report over a ledger of two entries whose     *)
(* expiry lies around the evaluation instant and around the threshold.     *)
(* The cache is unreachable, so every request computes its report.         *)

\* days_threshold is an int query parameter without a lower bound
Thresholds == {-1, 0, 30}
StatusFilters == {None, "active", "expiring_soon", "expired", "deleted"}
ReportViewers == {[sub |-> "admin", role |-> "HR_Admin"],
                  [sub |-> "u1", role |-> "HR_Manager"],
                  [sub |-> "u2", role |-> "employee"]}
\* seconds from the first instant to the expiry of an entry
ExpiryOffsets == {-5 * SecondsPerDay, 0, 1, 30 * SecondsPerDay,
                  30 * SecondsPerDay + 1}
RowKinds == {"active", "expired", "deleted"}

\* the ledger after record_id was tracked under mapping so that it expires
\* at expires, and then left alone, flagged expired, or deleted at the
\* instant of its creation
TrackedAs(s, mapping, record_id, expires, kind) ==
    LET t0 == expires - DEFAULT_RETENTION_DAYS * SecondsPerDay
        inv == get_or_create_data_inventory(s, mapping)
        s1 == create_retention_record(inv.s, inv.id, record_id, record_id, t0)
        n == Len(s1.retention)
    IN  CASE kind = "deleted" ->
                mark_retention_deleted(s1, record_id, "User account deletion",
                                       t0)
          [] kind = "expired" ->
                [s1 EXCEPT !.retention[n].retention_status = "expired"]
          [] OTHER -> s1

Tracked(s, record_id, expires, kind) ==
    TrackedAs(s, UserAccountData, record_id, expires, kind)

\* two tracked records, of one category or of two
ReportStores ==
    {TrackedAs(Tracked(EmptyStore, "u1", e1, k1), m, "u2", e2, k2) :
        e1 \in ExpiryOffsets, k1 \in RowKinds,
        e2 \in ExpiryOffsets, k2 \in RowKinds,
        m \in {UserAccountData, AttendanceRecords}}

ReportInit ==
    /\ now = 0
    /\ ticks = 0
    /\ store \in ReportStores
    /\ redis_up = FALSE
    /\ markers = NoKeys
    /\ counters = NoKeys
    /\ retentionCache = NoKeys
    /\ inventoryCache = NoKeys
    /\ employeeDataCache = NoKeys
    /\ published = << >>
    /\ delivered = 0
    /\ last = NoEvent
    /\ committed = {}
    /\ lastReport = NoReport
    /\ workers = << >>

ReportQuery == Query(ReportViewers, StatusFilters, Thresholds)
ReportTick == Advance({1})

ReportNext ==
    \/ ReportQuery
    \/ ReportTick

SpecReport == ReportInit /\ [][ReportNext]_vars

----------------------------------------------------------------------------
(* SpecCache: report requests between the creation and the deletion of a   *)
(* user's data, with a cache that comes and goes and whose entries expire. *)

MaxCacheEvents == 2
\* two steps of this length let a cached report expire
CacheTickSteps == {CACHE_TTL_RETENTION \div 2}
CacheViewers == {[sub |-> "admin", role |-> "HR_Admin"]}
CacheFilters == {None, "deleted"}
CacheThresholds == {30}

CacheUserCreated ==
    Consume(MaxCacheEvents, "user-created",
            {Dict("user-created", None, F("user_id", "u1"))},
            {TRUE}, {TRUE})
CacheUserDeleted ==
    Consume(MaxCacheEvents, "user-deleted",
            {Dict("user-deleted", None, F("user_id", "u1"))},
            {TRUE, FALSE}, {TRUE})
\* the payload of an employee-deleted event names the employee by
\* employee_id
CacheEmployeeDeleted ==
    Consume(MaxCacheEvents, "employee-deleted",
            {Dict("employee-deleted", None, F("employee_id", "u1"))},
            {TRUE}, {TRUE})
CacheQuery == Query(CacheViewers, CacheFilters, CacheThresholds)
CacheTick == Advance(CacheTickSteps)

CacheNext ==
    \/ CacheUserCreated
    \/ CacheUserDeleted
    \/ CacheEmployeeDeleted
    \/ CacheQuery
    \/ CacheTick
    \/ RedisFlip

SpecCache == Init /\ [][CacheNext]_vars

----------------------------------------------------------------------------
(* SpecConc: two workers, each handling one user-created event, statement  *)
(* by statement.  A session reads the committed rows and the rows it has   *)
(* flushed itself; commit appends the flushed rows to the committed ones.  *)
(* The tables' unique constraints are those of the data model: a flush     *)
(* that collides with a committed row raises, and one that collides with   *)
(* a row another session has flushed waits for that session to end.        *)

Workers == {1, 2}
NoTx == [categories |-> << >>, inventory |-> << >>]
IdleWorker == [pc |-> "idle", env |-> NoEvent.env, missed |-> FALSE,
               inventory_id |-> 0, category_id |-> 0, existing |-> 0,
               tx |-> NoTx, outcome |-> "none"]

View(w) ==
    [categories |-> store.categories \o workers[w].tx.categories,
     inventory |-> store.inventory \o workers[w].tx.inventory,
     retention |-> store.retention]

\* DataCategory.name is unique
category_conflict(rows, data_type) ==
    \E i \in 1..Len(rows) : rows[i].name = category_mapping(data_type)[1]

\* no constraint on DataInventory
inventory_conflict_unconstrained(rows, m) == FALSE

\* DataInventory is unique per (data_name, storage_location)
inventory_conflict(rows, m) ==
    \E i \in 1..Len(rows) : /\ rows[i].data_name = m.data_name
                            /\ rows[i].storage_location = m.storage_location

\* no constraint on DataRetention
retention_conflict_unconstrained(rows, inventory_id, record_id) == FALSE

\* DataRetention is unique per (data_inventory_id, record_id)
retention_conflict(rows, inventory_id, record_id) ==
    \E i \in 1..Len(rows) : /\ rows[i].data_inventory_id = inventory_id
                            /\ rows[i].record_id = record_id

\* the two workers handle events for different users or for the same one
ConcEnvelopes(w) ==
    {Dict("user-created", None, F("user_id", x)) :
        x \in IF w = 1 THEN {"u1"} ELSE Ids}

\* the ledger is empty, or employee data or user data has been tracked
\* before
ConcStores ==
    {EmptyStore,
     get_or_create_data_inventory(EmptyStore, EmployeePersonalData).s,
     get_or_create_data_inventory(EmptyStore, UserAccountData).s}

ConcInit ==
    /\ now = 0
    /\ ticks = 0
    /\ store \in ConcStores
    /\ redis_up = TRUE
    /\ markers = NoKeys
    /\ counters = NoKeys
    /\ retentionCache = NoKeys
    /\ inventoryCache = NoKeys
    /\ employeeDataCache = NoKeys
    /\ published = << >>
    /\ delivered = 0
    /\ last = NoEvent
    /\ committed = {}
    /\ lastReport = NoReport
    /\ workers = [w \in Workers |-> IdleWorker]

ConcCacheUnchanged ==
    UNCHANGED <<markers, counters, inventoryCache, employeeDataCache>>
ConcFrame ==
    UNCHANGED <<now, ticks, redis_up, retentionCache, published, last,
                committed, lastReport>>

\* the dedup gate and the extraction of user_id
Receive(w) ==
    \E env \in ConcEnvelopes(w) :
    LET event_id == Or(env.event_id, DedupFallback(env, "user_id"))
        dup == /\ event_id # None
               /\ is_duplicate_event(markers, <<"user-created", event_id>>,
                                     redis_up, now)
    IN  /\ workers[w].pc = "idle"
        /\ delivered' = delivered + 1
        /\ workers' = [workers EXCEPT ![w] =
                IF dup THEN [@ EXCEPT !.pc = "done", !.env = env,
                                      !.outcome = "deduped"]
                ELSE [@ EXCEPT !.pc = "select_inventory", !.env = env]]
        /\ UNCHANGED store
        /\ ConcCacheUnchanged /\ ConcFrame

\* the session ends without a commit; the handler logs the exception
Rollback(w) ==
    workers' = [workers EXCEPT ![w] =
        [@ EXCEPT !.pc = "done", !.tx = NoTx, !.outcome = "failed"]]

\* a statement of the session raises (the store is unreachable, a statement
\* times out): the with-block is left without a commit
SessionFails(w) ==
    /\ workers[w].pc \in {"select_inventory", "select_category",
                          "insert_category", "insert_inventory",
                          "select_retention", "commit"}
    /\ Rollback(w)
    /\ UNCHANGED <<store, delivered>>
    /\ ConcCacheUnchanged /\ ConcFrame

SelectInventory(w) ==
    LET found == select_data_inventory(View(w), UserAccountData)
    IN  /\ workers[w].pc = "select_inventory"
        /\ workers' = [workers EXCEPT ![w] =
                IF found # 0
                THEN [@ EXCEPT !.pc = "select_retention",
                               !.inventory_id = found]
                ELSE [@ EXCEPT !.pc = "select_category", !.missed = TRUE]]
        /\ UNCHANGED <<store, delivered>>
        /\ ConcCacheUnchanged /\ ConcFrame

SelectCategory(w) ==
    LET found == select_category(View(w), UserAccountData.data_type)
    IN  /\ workers[w].pc = "select_category"
        /\ workers' = [workers EXCEPT ![w] =
                IF found # 0
                THEN [@ EXCEPT !.pc = "insert_inventory",
                               !.category_id = found]
                ELSE [@ EXCEPT !.pc = "insert_category"]]
        /\ UNCHANGED <<store, delivered>>
        /\ ConcCacheUnchanged /\ ConcFrame

\* the category committed by the helper itself instead of flushed
InsertCategory_commits(w) ==
    LET data_type == UserAccountData.data_type
        v == View(w)
        flushed == insert_category(v, data_type).categories[
                        Len(v.categories) + 1]
    IN  /\ workers[w].pc = "insert_category"
        /\ \A o \in Workers \ {w} :
                ~category_conflict(workers[o].tx.categories, data_type)
        /\ IF category_conflict(store.categories, data_type)
           THEN Rollback(w) /\ UNCHANGED store
           ELSE /\ workers' = [workers EXCEPT ![w] =
                        [@ EXCEPT !.pc = "insert_inventory",
                                  !.category_id = flushed.id]]
                /\ store' = [store EXCEPT !.categories = Append(@, flushed)]
        /\ UNCHANGED delivered
        /\ ConcCacheUnchanged /\ ConcFrame

InsertCategory(w) ==
    LET data_type == UserAccountData.data_type
        v == View(w)
        flushed == insert_category(v, data_type).categories[
                        Len(v.categories) + 1]
    IN  /\ workers[w].pc = "insert_category"
        /\ \A o \in Workers \ {w} :
                ~category_conflict(workers[o].tx.categories, data_type)
        /\ IF category_conflict(store.categories, data_type)
           THEN Rollback(w)
           ELSE workers' = [workers EXCEPT ![w] =
                    [@ EXCEPT !.pc = "insert_inventory",
                              !.category_id = flushed.id,
                              !.tx.categories = Append(@, flushed)]]
        /\ UNCHANGED <<store, delivered>>
        /\ ConcCacheUnchanged /\ ConcFrame

InsertInventory(w) ==
    LET m == UserAccountData
        v == View(w)
        flushed == insert_data_inventory(v, m, workers[w].category_id)
                        .inventory[Len(v.inventory) + 1]
    IN  /\ workers[w].pc = "insert_inventory"
        /\ \A o \in Workers \ {w} :
                ~inventory_conflict(workers[o].tx.inventory, m)
        /\ IF inventory_conflict(store.inventory, m)
           THEN Rollback(w)
           ELSE workers' = [workers EXCEPT ![w] =
                    [@ EXCEPT !.pc = "select_retention",
                              !.inventory_id = flushed.id,
                              !.tx.inventory = Append(@, flushed)]]
        /\ UNCHANGED <<store, delivered>>
        /\ ConcCacheUnchanged /\ ConcFrame

SelectRetention(w) ==
    LET user_id == workers[w].env.f.user_id
        existing == select_retention_record(View(w), workers[w].inventory_id,
                                            user_id)
    IN  /\ workers[w].pc = "select_retention"
        /\ workers' = [workers EXCEPT ![w] =
                [@ EXCEPT !.pc = "commit", !.existing = existing]]
        /\ UNCHANGED <<store, delivered>>
        /\ ConcCacheUnchanged /\ ConcFrame

\* session.commit() writes the retention entry and ends the transaction
Commit(w) ==
    LET me == workers[w]
        user_id == me.env.f.user_id
    IN  /\ me.pc = "commit"
        /\ IF /\ me.existing = 0
              /\ retention_conflict(store.retention, me.inventory_id,
                                    user_id)
           THEN Rollback(w) /\ UNCHANGED store
           ELSE /\ store' =
                    IF me.existing # 0
                    THEN refresh_retention_record(View(w), me.existing, now)
                    ELSE insert_retention_record(View(w), me.inventory_id,
                                                 user_id, user_id, now)
                /\ workers' = [workers EXCEPT ![w] =
                        [@ EXCEPT !.pc = "committed", !.tx = NoTx]]
        /\ UNCHANGED delivered
        /\ ConcCacheUnchanged /\ ConcFrame

\* the marker, the invalidations and the counter that follow the commit
Finish(w) ==
    LET env == workers[w].env
        user_id == env.f.user_id
        event_id == Or(env.event_id, DedupFallback(env, "user_id"))
    IN  /\ workers[w].pc = "committed"
        /\ markers' = IF event_id # None
                      THEN mark_event_processed(markers,
                                <<"user-created", event_id>>, redis_up, now)
                      ELSE markers
        /\ inventoryCache' = invalidate_inventory_cache(inventoryCache,
                                                        redis_up)
        /\ employeeDataCache' =
                invalidate_employee_data_cache(employeeDataCache, user_id,
                                               redis_up)
        /\ counters' = increment_counter(counters, "data_collected",
                                         redis_up, now)
        /\ workers' = [workers EXCEPT ![w] =
                [@ EXCEPT !.pc = "done", !.outcome = "applied"]]
        /\ UNCHANGED <<store, delivered>>
        /\ ConcFrame

ConcNext ==
    \E w \in Workers :
        \/ Receive(w)
        \/ SelectInventory(w)
        \/ SelectCategory(w)
        \/ InsertCategory(w)
        \/ InsertInventory(w)
        \/ SelectRetention(w)
        \/ Commit(w)
        \/ Finish(w)

SpecConc == ConcInit /\ [][ConcNext]_vars

\* SpecTx: the same two workers over a store that may fail any statement
TxNext ==
    \/ ConcNext
    \/ \E w \in Workers : SessionFails(w)

SpecTx == ConcInit /\ [][TxNext]_vars

----------------------------------------------------------------------------
(* SpecViews: the three cached queries by viewers of different roles,      *)
(* between events that add to the inventory and the ledger.  The inventory *)
(* starts with one entry that an administrator registered as confidential  *)
(* administrative data, the kind of entry the role filter withholds.       *)

MaxViewEvents == 2
ViewViewers == {[sub |-> "admin", role |-> "HR_Admin"],
                [sub |-> "m1", role |-> "HR_Manager"],
                [sub |-> "u1", role |-> "employee"]}

ViewStore ==
    LET cat == get_or_create_category(EmptyStore, "admin")
        s1 == insert_data_inventory(cat.s,
                M("Administrator Accounts", "admin", "identity.admins",
                  "Administration of the platform",
                  "Legitimate Interest - Business operations"), cat.id)
    IN  [s1 EXCEPT !.inventory[1].access_control_level = "confidential"]

ViewInit ==
    /\ now = 0
    /\ ticks = 0
    /\ store = ViewStore
    /\ redis_up = TRUE
    /\ markers = NoKeys
    /\ counters = NoKeys
    /\ retentionCache = NoKeys
    /\ inventoryCache = NoKeys
    /\ employeeDataCache = NoKeys
    /\ published = << >>
    /\ delivered = 0
    /\ last = NoEvent
    /\ committed = {}
    /\ lastReport = NoReport
    /\ workers = << >>

ViewInventory == InventoryQuery(ViewViewers, {None, "admin"})
ViewAboutMe == AboutMe(ViewViewers, {"u1"})
ViewReport == Query(ViewViewers, {None}, {30})
ViewUserCreated ==
    Consume(MaxViewEvents, "user-created",
            {Dict("user-created", None, F("user_id", "u1"))}, {TRUE}, {TRUE})
ViewAttendance ==
    Consume(MaxViewEvents, "attendance-checkin",
            {Dict("attendance-checkin", None,
                  [F("employee_id", "u1") EXCEPT !.attendance_id = "u2"])},
            {TRUE}, {TRUE})
ViewNext ==
    \/ ViewInventory
    \/ ViewAboutMe
    \/ ViewReport
    \/ ViewUserCreated
    \/ ViewAttendance
    \/ RedisFlip

SpecViews == ViewInit /\ [][ViewNext]_vars

----------------------------------------------------------------------------
(* SpecRace: two report requests and one deletion event in flight at the   *)
(* same time, statement by statement: a request looks the cache up, reads  *)
(* the ledger, then sets the cache; the handler commits, then invalidates. *)

Readers == {"r1", "r2"}
Deleter == "ev"
RaceViewer == [sub |-> "admin", role |-> "HR_Admin"]
RaceThreshold == 30
RaceEnvelope == Dict("user-deleted", "e1", F("user_id", "u1"))

\* one or two users are tracked and none is deleted
RaceStores ==
    LET expires == DEFAULT_RETENTION_DAYS * SecondsPerDay
        one == Tracked(EmptyStore, "u1", expires, "active")
    IN  {one, Tracked(one, "u2", expires, "active")}

RaceInit ==
    /\ now = 0
    /\ ticks = 0
    /\ store \in RaceStores
    /\ redis_up = TRUE
    /\ markers = NoKeys
    /\ counters = NoKeys
    /\ retentionCache = NoKeys
    /\ inventoryCache = NoKeys
    /\ employeeDataCache = NoKeys
    /\ published = << >>
    /\ delivered = 0
    /\ last = NoEvent
    /\ committed = {}
    /\ lastReport = NoReport
    /\ workers = [p \in Readers \cup {Deleter} |->
                    [pc |-> "idle", status |-> None, result |-> << >>]]

RaceResponse(status, body, from_cache) ==
    [status_code |-> 200, route |-> "data-retention-report",
     from_cache |-> from_cache, status |-> status,
     days_threshold |-> RaceThreshold, viewer |-> RaceViewer,
     body |-> [body EXCEPT !.retention_items =
                filter_retention_report_for_role(@, RaceViewer.sub,
                                                 RaceViewer.role)]]

\* cache.get_retention_report: a hit is returned at once
RaceLookup(r) ==
    \E status \in {None, "deleted"} :
        LET cached_result == get_retention_report(retentionCache, status,
                                                  RaceThreshold, redis_up,
                                                  now)
        IN  /\ workers[r].pc = "idle"
            /\ IF cached_result # << >>
               THEN /\ lastReport' = RaceResponse(status, cached_result[1],
                                                  TRUE)
                    /\ workers' = [workers EXCEPT ![r].pc = "done",
                                                  ![r].status = status]
               ELSE /\ lastReport' = lastReport
                    /\ workers' = [workers EXCEPT ![r].pc = "read",
                                                  ![r].status = status]
            /\ UNCHANGED <<now, ticks, store, redis_up, markers, counters,
                           retentionCache, inventoryCache, employeeDataCache,
                           published, delivered, last, committed>>

\* the request reads the ledger and computes the report
RaceRead(r) ==
    /\ workers[r].pc = "read"
    /\ workers' = [workers EXCEPT
            ![r].pc = "set",
            ![r].result = build_retention_report(store, now,
                                workers[r].status, RaceThreshold)]
    /\ UNCHANGED <<now, ticks, store, redis_up, markers, counters,
                   retentionCache, inventoryCache, employeeDataCache,
                   published, delivered, last, committed, lastReport>>

\* cache.set_retention_report, then the response
RaceSet(r) ==
    /\ workers[r].pc = "set"
    /\ retentionCache' = set_retention_report(retentionCache,
                            workers[r].result, workers[r].status,
                            RaceThreshold, redis_up, now)
    /\ lastReport' = RaceResponse(workers[r].status, workers[r].result,
                                  FALSE)
    /\ workers' = [workers EXCEPT ![r].pc = "done"]
    /\ UNCHANGED <<now, ticks, store, redis_up, markers, counters,
                   inventoryCache, employeeDataCache, published, delivered,
                   last, committed>>

\* the deletion handler marks the entries and commits
RaceCommit ==
    /\ workers[Deleter].pc = "idle"
    /\ store' = mark_retention_deleted(store, RaceEnvelope.f.user_id,
                                       "User account deletion", now)
    /\ workers' = [workers EXCEPT ![Deleter].pc = "committed"]
    /\ UNCHANGED <<now, ticks, redis_up, markers, counters, retentionCache,
                   inventoryCache, employeeDataCache, published, delivered,
                   last, committed, lastReport>>

\* the invalidations, the counter and the publication after the commit
RaceInvalidate ==
    /\ workers[Deleter].pc = "committed"
    /\ employeeDataCache' =
            invalidate_employee_data_cache(employeeDataCache,
                                           RaceEnvelope.f.user_id, redis_up)
    /\ retentionCache' = invalidate_retention_cache(retentionCache, redis_up)
    /\ counters' = increment_counter(counters, "data_deleted", redis_up, now)
    /\ published' = publish_data_deleted_event(published,
                        RaceEnvelope.f.user_id, "user",
                        "User account deletion", now, TRUE)
    /\ delivered' = delivered + 1
    /\ last' = [handler |-> "user_deleted", topic |-> "user-deleted",
                env |-> RaceEnvelope, outcome |-> "applied", up |-> redis_up,
                cached |-> DOMAIN Live(retentionCache, now)]
    /\ workers' = [workers EXCEPT ![Deleter].pc = "done"]
    /\ UNCHANGED <<now, ticks, store, redis_up, markers, inventoryCache,
                   committed, lastReport>>

RaceNext ==
    \/ \E r \in Readers : RaceLookup(r)
    \/ \E r \in Readers : RaceRead(r)
    \/ \E r \in Readers : RaceSet(r)
    \/ RaceCommit
    \/ RaceInvalidate

SpecRace == RaceInit /\ [][RaceNext]_vars

----------------------------------------------------------------------------
(* SpecFilter: the pure functions of rbac.py applied to lists of rows,     *)
(* roles and ids drawn from small sets.  lastReport holds the call and     *)
(* what it returned.                                                       *)

MaxRows == 2
AllRoles == {"HR_Admin", "HR_Manager", "manager", "employee"}

\* the people the rows are about: u1 is an HR_Admin, u2 an employee
RoleOfSubject == [x \in Ids |-> IF x = "u1" THEN "HR_Admin" ELSE "employee"]

\* rows as the report builds them, which carry data_subject only, and rows
\* that carry the role of the subject as well
RetentionItems ==
    [data_subject : OptIds, status : {"active"}]
        \cup {[data_subject |-> x, status |-> "active",
                data_subject_role |-> RoleOfSubject[x]] : x \in Ids}
InventoryItems ==
    [data_type : {"admin", "personal"},
     access_control_level : {"public", "internal", "restricted",
                             "confidential"}]

Lists(rows) == UNION {[1..n -> rows] : n \in 0..MaxRows}

FilterRetention ==
    \E items \in Lists(RetentionItems), role \in AllRoles, actor_id \in Ids :
        /\ lastReport' =
                [route |-> "filter_retention_report_for_role",
                 input |-> items, role |-> role, actor_id |-> actor_id,
                 output |-> filter_retention_report_for_role(items, actor_id,
                                                             role)]
        /\ UNCHANGED <<now, ticks, store, redis_up, markers, counters,
                       retentionCache, inventoryCache, employeeDataCache,
                       published, delivered, last, committed, workers>>

FilterInventory ==
    \E items \in Lists(InventoryItems), role \in AllRoles :
        /\ lastReport' =
                [route |-> "filter_data_inventory_for_role",
                 input |-> items, role |-> role, actor_id |-> None,
                 output |-> filter_data_inventory_for_role(items, role)]
        /\ UNCHANGED <<now, ticks, store, redis_up, markers, counters,
                       retentionCache, inventoryCache, employeeDataCache,
                       published, delivered, last, committed, workers>>

CanViewAboutMe ==
    \E actor_id \in Ids, role \in AllRoles, target \in Ids :
        /\ lastReport' =
                [route |-> "can_view_employee_data_about_me",
                 actor_id |-> actor_id, role |-> role, target |-> target,
                 output |-> can_view_employee_data_about_me(actor_id, role,
                                                            target)]
        /\ UNCHANGED <<now, ticks, store, redis_up, markers, counters,
                       retentionCache, inventoryCache, employeeDataCache,
                       published, delivered, last, committed, workers>>

FilterNext ==
    \/ FilterRetention
    \/ FilterInventory
    \/ CanViewAboutMe

SpecFilter == Init /\ [][FilterNext]_vars

----------------------------------------------------------------------------
(* SpecAuth: the three queries by viewers some of whom each route refuses, *)
(* about either employee, while events fill the ledger and the caches.     *)

MaxAuthEvents == 2
AuthViewers == {[sub |-> "admin", role |-> "HR_Admin"],
                [sub |-> "u1", role |-> "employee"],
                [sub |-> "u2", role |-> "manager"]}

AuthInventory == InventoryQuery(AuthViewers, {None})
AuthAboutMe == AboutMe(AuthViewers, Ids)
AuthReport == Query(AuthViewers, {None}, {30})
AuthUserCreated ==
    Consume(MaxAuthEvents, "user-created",
            {Dict("user-created", None, F("user_id", "u1"))}, {TRUE}, {TRUE})
AuthUserDeleted ==
    Consume(MaxAuthEvents, "user-deleted",
            {Dict("user-deleted", None, F("user_id", "u1"))}, {TRUE}, {TRUE})
AuthEmployeeCreated ==
    Consume(MaxAuthEvents, "employee-created",
            {Dict("employee-created", "e1", F("employee_id", "u1"))},
            {TRUE}, {TRUE})
AuthNext ==
    \/ AuthInventory
    \/ AuthAboutMe
    \/ AuthReport
    \/ AuthUserCreated
    \/ AuthUserDeleted
    \/ AuthEmployeeCreated
    \/ RedisFlip

SpecAuth == ViewInit /\ [][AuthNext]_vars

----------------------------------------------------------------------------
(* SpecRegistrar: _get_or_create_data_inventory applied, one call after    *)
(* the other, to names, types and locations drawn from small sets, among   *)
(* user-created events that register through the same function.            *)

MaxRegistered == 3
DataNames == {"Payroll Exports", "Badge Photos"}
DataTypes == {"personal", "sensitive", "employment", "operational", "admin"}

Register ==
    \E data_name \in DataNames, data_type \in DataTypes :
        LET m == M(data_name, data_type, "hrms.files", "Operations",
                   "Legitimate Interest")
            r == get_or_create_data_inventory(store, m)
        IN  /\ Len(store.inventory) < MaxRegistered
            /\ store' = r.s
            /\ lastReport' = [route |-> "_get_or_create_data_inventory",
                              input |-> m, output |-> r.id]
            /\ UNCHANGED <<now, ticks, redis_up, markers, counters,
                           retentionCache, inventoryCache, employeeDataCache,
                           published, delivered, last, committed, workers>>

RegistrarUserCreated ==
    Consume(MaxRegistered, "user-created",
            {Dict("user-created", None, F("user_id", "u1"))}, {TRUE}, {TRUE})

RegistrarNext ==
    \/ Register
    \/ RegistrarUserCreated

SpecRegistrar == Init /\ [][RegistrarNext]_vars

----------------------------------------------------------------------------
(* SpecGeneric: the generic handler fed events of a mapped type that carry *)
(* any of the five identifiers, each under its own value or absent; the    *)
(* store may fail the transaction.                                         *)

MaxGenericEvents == 2
GenericIds ==
    Consume(MaxGenericEvents, "user-onboarding-failed",
            {Dict("employee-salary-updated", "e1",
                  [BlankFields EXCEPT !.id = a, !.user_id = b,
                                      !.employee_id = c, !.attendance_id = d,
                                      !.leave_id = e]) :
                a \in {None, "u1"}, b \in {None, "u2"}, c \in {None, "u1"},
                d \in {None, "u2"}, e \in {None, "u1"}},
            BOOLEAN, {TRUE})
GenericNothing ==
    Consume(MaxGenericEvents, "user-onboarding-failed",
            {Dict(None, "e1", F("user_id", "u1"))}, {TRUE}, {TRUE})

GenericNext ==
    \/ GenericIds
    \/ GenericNothing

SpecGeneric == Init /\ [][GenericNext]_vars

----------------------------------------------------------------------------
(* Properties *)

\* the step just taken handed an envelope to a handler
Delivery == delivered' = delivered + 1

\* the step just taken delivered the envelope of the previous delivery again
Redelivery ==
    /\ Delivery
    /\ last'.handler = last.handler
    /\ last'.topic = last.topic
    /\ last'.env = last.env

Rows == store.retention
RowIds(s) == 1..Len(s.retention)

\* C1: delivering an envelope again after it was applied changes neither the
\* store nor the counters
C1_Idempotence ==
    [][(Redelivery /\ last.outcome = "applied")
        => (store' = store /\ counters' = counters)]_vars

\* C7, first part: a dedup marker exists only for the key of an event whose
\* transaction committed
MarkersCommitted == \A key \in DOMAIN markers : key \in committed

\* C7: markers only for committed events; a delivery that does not end
\* applied leaves the markers alone; an event whose transaction failed and
\* whose key never committed is not stopped by the gate when redelivered
C7_MarkerAfterCommit ==
    /\ []MarkersCommitted
    /\ [][(Delivery /\ last'.outcome # "applied") => markers' = markers]_vars
    /\ [][(Redelivery /\ last.outcome = "failed"
            /\ DedupKey(last.handler, last.env) \notin committed)
            => last'.outcome \in {"applied", "failed"}]_vars

\* C7 witness: the transaction of a gated event failed while the cache was
\* reachable, and its key has no marker
C7_FailedUnmarked ==
    /\ last.outcome = "failed"
    /\ last.up
    /\ DedupKey(last.handler, last.env) # << >>
    /\ DedupKey(last.handler, last.env) \notin DOMAIN markers

\* C8: no exception leaves a handler
C8_NoExceptionEscapes == last.outcome # "raised"

\* C3, first part: at most one retention entry per (data_inventory_id,
\* record_id)
SingleEntry ==
    \A i, j \in RowIds(store) :
        (/\ Rows[i].data_inventory_id = Rows[j].data_inventory_id
         /\ Rows[i].record_id = Rows[j].record_id) => i = j

CreationHandlers == {"user_created", "employee_created", "attendance",
                     "leave", "notification", "generic"}

\* the inventory entry and the record a delivered creation event is about
TargetMapping(e) ==
    CASE e.handler = "user_created" -> UserAccountData
      [] e.handler = "employee_created" -> EmployeePersonalData
      [] e.handler = "attendance" -> AttendanceRecords
      [] e.handler = "leave" -> LeaveRecords
      [] e.handler = "notification" -> CommunicationRecords
      [] OTHER -> DATA_INVENTORY_MAPPING[e.env.event_type]
TargetRecord(e) ==
    LET f == e.env.f
    IN  CASE e.handler = "user_created" -> Or(f.user_id, f.id)
          [] e.handler = "employee_created" -> Or(f.employee_id, f.id)
          [] e.handler = "attendance" -> Or(f.attendance_id, f.id)
          [] e.handler = "leave" -> Or(f.leave_id, f.id)
          [] e.handler = "notification" -> Or(f.notification_id, f.id)
          [] OTHER -> Or(f.id, Or(f.user_id, Or(f.employee_id,
                         Or(f.attendance_id, f.leave_id))))
TargetRows(s, e) ==
    {i \in RowIds(s) :
        /\ s.retention[i].record_id = TargetRecord(e)
        /\ s.inventory[s.retention[i].data_inventory_id].data_name
            = TargetMapping(e).data_name}

\* C3: single entry per pair, and a creation event for a pair that has an
\* entry adds no entry and changes nothing but that entry's
\* data_last_accessed (and its updated_at)
C3_RetentionSingleEntry ==
    /\ []SingleEntry
    /\ [][(/\ Delivery
           /\ last'.handler \in CreationHandlers
           /\ last'.outcome = "applied"
           /\ TargetRows(store, last') # {})
            => /\ Len(store'.retention) = Len(store.retention)
               /\ \A i \in RowIds(store) :
                    store'.retention[i] =
                        IF i \in TargetRows(store, last')
                        THEN [Rows[i] EXCEPT !.data_last_accessed = now,
                                             !.updated_at = now]
                        ELSE Rows[i]]_vars

\* C3 witness: a creation event found its entry and refreshed it
C3_Refreshed ==
    /\ last.handler \in CreationHandlers
    /\ last.outcome = "applied"
    /\ \E i \in RowIds(store) :
        /\ i \in TargetRows(store, last)
        /\ Rows[i].data_last_accessed = now
        /\ Rows[i].data_created_at < now

\* C4: an entry whose deletion is completed has status "deleted"
C4_DeletionSticky ==
    \A i \in RowIds(store) :
        Rows[i].deletion_completed_at # NoTime
            => Rows[i].retention_status = "deleted"

\* C5: a deletion event for a record whose entries are all deleted already
\* leaves their deletion timestamps and reason as they were
C5_MarkDeletedIdempotent ==
    [][(/\ Delivery
        /\ last'.handler = "user_deleted"
        /\ last'.outcome = "applied"
        /\ \A i \in RowIds(store) :
            Rows[i].record_id = Or(last'.env.f.user_id, last'.env.f.id)
                => Rows[i].deletion_completed_at # NoTime)
        => \A i \in RowIds(store) :
            /\ store'.retention[i].marked_for_deletion_at
                = Rows[i].marked_for_deletion_at
            /\ store'.retention[i].deletion_completed_at
                = Rows[i].deletion_completed_at
            /\ store'.retention[i].deletion_reason
                = Rows[i].deletion_reason]_vars

----------------------------------------------------------------------------
(* The retention report against the ledger it was computed from.  A step   *)
(* other than a request clears lastReport, so a response at hand was       *)
(* computed from the present ledger at the present instant.                *)

Answered ==
    /\ lastReport.status_code = 200
    /\ lastReport.route = "data-retention-report"
Listed == {lastReport.body.retention_items[i].id :
            i \in 1..Len(lastReport.body.retention_items)}

\* the bucket the status derivation rule assigns to a ledger entry
DerivedStatus(r, t, d) ==
    IF r.deletion_completed_at # NoTime THEN "deleted"
    ELSE IF r.retention_status = "expired" \/ t > r.retention_expires_at
    THEN "expired"
    ELSE IF r.retention_expires_at <= t + d * SecondsPerDay
    THEN "expiring_soon"
    ELSE "active"

Derived(bucket) ==
    {Rows[i].id : i \in {j \in 1..Len(Rows) :
        DerivedStatus(Rows[j], now, lastReport.days_threshold) = bucket}}

\* C9: every ledger entry is placed in exactly one of the four buckets, the
\* one the rule deleted / expired / expiring_soon / active assigns in that
\* order: the four counts are the sizes of the rule's buckets and add up to
\* the ledger, a filtered report lists exactly the rule's bucket, and an
\* unfiltered report lists every entry once.
C9_FourWayPartition ==
    Answered =>
        LET body == lastReport.body
        IN  /\ body.active_records = Cardinality(Derived("active"))
            /\ body.expiring_soon = Cardinality(Derived("expiring_soon"))
            /\ body.expired_records = Cardinality(Derived("expired"))
            /\ body.deleted_records = Cardinality(Derived("deleted"))
            /\ body.active_records + body.expiring_soon
                    + body.expired_records + body.deleted_records
                = Len(Rows)
            /\ Len(body.retention_items) = Cardinality(Listed)
            /\ IF lastReport.status = None
               THEN Listed = RowIds(store)
               ELSE Listed = Derived(lastReport.status)

\* an unfiltered report over a ledger whose two entries fall in different
\* buckets, one of them deleted
C9_TwoBuckets ==
    /\ Answered
    /\ lastReport.status = None
    /\ lastReport.body.deleted_records = 1
    /\ lastReport.body.expired_records + lastReport.body.expiring_soon = 1

\* the entries that are neither deleted nor flagged expired and expire at t
ExpiringAt(t) ==
    {Rows[i].id : i \in {j \in 1..Len(Rows) :
        /\ Rows[j].deletion_completed_at = NoTime
        /\ Rows[j].retention_status # "expired"
        /\ Rows[j].retention_expires_at = t}}

OnThreshold ==
    ExpiringAt(now + lastReport.days_threshold * SecondsPerDay)

\* C10: for a threshold of d >= 0 days an entry, neither deleted nor flagged
\* expired, that expires at now + d days exactly is reported as
\* expiring_soon and not as active, and one that expires at now exactly is
\* not reported as expired.
C10_ThresholdInclusive ==
    (Answered /\ lastReport.days_threshold >= 0) =>
        /\ lastReport.status = "expiring_soon" => OnThreshold \subseteq Listed
        /\ lastReport.status = "active" => OnThreshold \cap Listed = {}
        /\ lastReport.status = "expired" => ExpiringAt(now) \cap Listed = {}
        /\ lastReport.body.expiring_soon >= Cardinality(OnThreshold)
        /\ lastReport.body.active_records
                <= Len(Rows) - Cardinality(OnThreshold)
        /\ lastReport.body.expired_records
                <= Len(Rows) - Cardinality(ExpiringAt(now))

\* a report of the expiring entries for a threshold of 30 days over a ledger
\* with an entry that expires in 30 days exactly
C10_OnThreshold ==
    /\ Answered
    /\ lastReport.days_threshold = 30
    /\ lastReport.status = "expiring_soon"
    /\ OnThreshold # {}
    /\ OnThreshold \subseteq Listed

----------------------------------------------------------------------------
(* Cache coherence of the retention report *)

\* the latest event was a deletion that committed, and the report at hand
\* answers a request whose parameters had a cached report when it arrived
AfterDeletion ==
    /\ Answered
    /\ last.handler = "user_deleted"
    /\ last.outcome = "applied"
    /\ <<lastReport.status, lastReport.days_threshold>> \in last.cached

\* the report at hand shows the deletions of the ledger
ReflectsDeletion ==
    LET body == lastReport.body
    IN  /\ body.deleted_records =
                Cardinality({i \in 1..Len(Rows) :
                                Rows[i].deletion_completed_at # NoTime})
        /\ \A i \in 1..Len(body.retention_items) :
                LET item == body.retention_items[i]
                IN  /\ item.id \in 1..Len(Rows)
                    /\ item.status = Rows[item.id].retention_status
                    /\ item.marked_for_deletion
                            = Rows[item.id].marked_for_deletion

----------------------------------------------------------------------------
(* The inventory under concurrent workers *)

\* C2: whatever the order and the interleaving in which two events with
\* the same (data_name, storage_location) are processed, the committed
\* inventory holds at most one entry with that pair.
C2_InventoryUnique ==
    \A i, j \in 1..Len(store.inventory) :
        (/\ store.inventory[i].data_name = store.inventory[j].data_name
         /\ store.inventory[i].storage_location
                = store.inventory[j].storage_location) => i = j

\* both workers are done and each of them had found no entry for the pair
C2_BothMissed ==
    /\ workers # << >>
    /\ \A w \in Workers : workers[w].pc = "done" /\ workers[w].missed
    /\ \E i \in 1..Len(store.inventory) :
            store.inventory[i].data_name = UserAccountData.data_name

----------------------------------------------------------------------------
(* The expiry of a ledger entry *)

\* C11: an entry is created active with retention_expires_at =
\* data_created_at + retention_days of its inventory entry, and no later
\* event (access, repeated creation, termination, deletion) changes
\* retention_expires_at or data_created_at.
C11_ExpiryComputedOnce ==
    /\ [](\A i \in 1..Len(Rows) :
            /\ Rows[i].data_inventory_id \in 1..Len(store.inventory)
            /\ Rows[i].retention_expires_at =
                    Rows[i].data_created_at
                    + store.inventory[Rows[i].data_inventory_id].retention_days
                        * SecondsPerDay)
    /\ [][/\ Len(Rows') >= Len(Rows)
          /\ \A i \in 1..Len(Rows) :
                /\ Rows'[i].retention_expires_at = Rows[i].retention_expires_at
                /\ Rows'[i].data_created_at = Rows[i].data_created_at
          /\ \A i \in (Len(Rows) + 1)..Len(Rows') :
                /\ Rows'[i].retention_status = "active"
                /\ Rows'[i].data_created_at = now]_vars

\* an entry that an event changed at a later instant than its creation
C11_ChangedLater ==
    \E i \in 1..Len(Rows) :
        /\ Rows[i].updated_at > Rows[i].data_created_at
        /\ Rows[i].data_last_accessed > Rows[i].data_created_at

----------------------------------------------------------------------------
(* The day counts of a report item *)

\* C12: days_until_deletion is retention_expires_at - now in whole days,
\* negative after the expiry and never clamped (-k at k whole days after
\* the expiry), and data_age_days is now - data_created_at in whole days.
C12_WholeDays ==
    Answered =>
        \A i \in 1..Len(lastReport.body.retention_items) :
            LET item == lastReport.body.retention_items[i]
                left == Rows[item.id].retention_expires_at - now
                age == now - Rows[item.id].data_created_at
            IN  /\ item.days_until_deletion * SecondsPerDay <= left
                /\ left < (item.days_until_deletion + 1) * SecondsPerDay
                /\ item.data_age_days * SecondsPerDay <= age
                /\ age < (item.data_age_days + 1) * SecondsPerDay
                /\ left % SecondsPerDay = 0
                    => item.days_until_deletion * SecondsPerDay = left

\* a report with an entry that expired five days ago to the second
C12_FiveDaysLate ==
    /\ Answered
    /\ \E i \in 1..Len(lastReport.body.retention_items) :
        LET item == lastReport.body.retention_items[i]
        IN  /\ item.days_until_deletion = -5
            /\ now - Rows[item.id].retention_expires_at = 5 * SecondsPerDay

----------------------------------------------------------------------------
(* Events without a mapping *)

\* the type under which the generic handler looks an envelope up
LookupType(e, topic) == IF e.event_type = None THEN topic ELSE e.event_type

CacheState == <<markers, counters, retentionCache, inventoryCache,
                employeeDataCache>>

\* C13: an event whose event_type (its topic, when it has none) has no
\* entry in DATA_INVENTORY_MAPPING is handled without error and leaves the
\* categories, the inventory, the ledger, the markers and the cache as
\* they were.
C13_UnmappedIgnored ==
    [][(/\ Delivery
        /\ last'.handler = "generic"
        /\ LookupType(last'.env, last'.topic)
                \notin DOMAIN DATA_INVENTORY_MAPPING)
       => /\ last'.outcome = "ignored"
          /\ store' = store
          /\ CacheState' = CacheState
          /\ published' = published]_vars

\* an unmapped event with a null payload was ignored over a ledger that
\* holds an entry
C13_NullIgnored ==
    /\ last.handler = "generic"
    /\ last.outcome = "ignored"
    /\ last.env.payload_kind = "null"
    /\ Rows # << >>

----------------------------------------------------------------------------
(* The registrar under a uniqueness conflict *)

\* C14: a worker whose insert the uniqueness constraint rejects re-reads
\* the surviving row, so its event is applied all the same: every worker
\* that is done has written the ledger entry of its event and none has
\* failed.
C14_ConflictRecovered ==
    workers # << >> =>
        \A w \in Workers :
            workers[w].pc = "done" =>
                /\ workers[w].outcome = "applied"
                /\ \E i \in 1..Len(Rows) :
                        Rows[i].record_id = workers[w].env.f.user_id

----------------------------------------------------------------------------
(* Cache invalidation by the handlers *)

\* the step just taken applied an event while the cache was reachable
AppliedReachable == Delivery /\ last'.outcome = "applied" /\ redis_up

\* C15: after an applied event that creates or changes a ledger entry no
\* retention report remains in the cache (stated for a reachable cache).
C15_RetentionCacheInvalidated ==
    [][(AppliedReachable /\ Rows' # Rows) => retentionCache' = NoKeys]_vars

\* C16: after an applied event that creates or changes a ledger entry
\* whose data subject is S, the summary of S is not in the cache (stated
\* for a reachable cache).
C16_SubjectSummaryInvalidated ==
    [][AppliedReachable =>
        \A i \in 1..Len(Rows') :
            (i > Len(Rows) \/ Rows'[i] # Rows[i])
                => Rows'[i].data_subject_id
                        \notin DOMAIN employeeDataCache']_vars

\* C17: after an applied event in which the registrar inserts an inventory
\* entry no inventory query remains in the cache (stated for a reachable
\* cache).
C17_InventoryCacheInvalidated ==
    [][(AppliedReachable /\ Len(store'.inventory) > Len(store.inventory))
        => inventoryCache' = NoKeys]_vars

----------------------------------------------------------------------------
(* The role filter and the cached payloads *)

Served(route) == lastReport.status_code = 200 /\ lastReport.route = route

\* the inventory is only appended to: an unfiltered result of an earlier
\* instant lists the entries of the requested type among the first n
InventorySnapshot(val, data_type) ==
    \E n \in 0..Len(store.inventory) :
        /\ val.inventory =
                SelectSeq(SubSeq(store.inventory, 1, n),
                          LAMBDA item : data_type = None
                                        \/ item.data_type = data_type)
        /\ val.count = Len(val.inventory)

\* an unfiltered report of an earlier instant lists the first n entries
LedgerSnapshot(val) ==
    \E n \in 0..Len(Rows) :
        /\ Len(val.retention_items) = n
        /\ {val.retention_items[i].id : i \in 1..n} = 1..n
        /\ val.total_records_tracked = n

\* C19: the cache holds unfiltered payloads only, and a response, served
\* from the cache or computed, is the role filter of the viewer applied to
\* the unfiltered payload, whoever populated the cache.
C19_FilterReapplied ==
    /\ \A k \in DOMAIN inventoryCache :
            InventorySnapshot(inventoryCache[k].val, k[2])
    /\ \A k \in DOMAIN retentionCache :
            LedgerSnapshot(retentionCache[k].val)
    /\ Served("data-inventory") =>
            \E val \in IF lastReport.from_cache
                        THEN {inventoryCache[k].val :
                                k \in DOMAIN inventoryCache}
                        ELSE {build_data_inventory(store,
                                    lastReport.data_type, now)} :
                lastReport.body =
                    [val EXCEPT !.inventory =
                        filter_data_inventory_for_role(@,
                            lastReport.viewer.role)]
    /\ Served("data-retention-report") =>
            \E val \in IF lastReport.from_cache
                        THEN {retentionCache[k].val :
                                k \in DOMAIN retentionCache}
                        ELSE {build_retention_report(store, now,
                                    lastReport.status,
                                    lastReport.days_threshold)} :
                lastReport.body =
                    [val EXCEPT !.retention_items =
                        filter_retention_report_for_role(@,
                            lastReport.viewer.sub, lastReport.viewer.role)]

\* a manager is served from the cache and is withheld the confidential
\* entry that the cached payload holds
C19_WithheldOnHit ==
    /\ Served("data-inventory")
    /\ lastReport.from_cache
    /\ lastReport.viewer.role = "HR_Manager"
    /\ Len(lastReport.body.inventory) < lastReport.body.count
    /\ \E k \in DOMAIN inventoryCache :
            \E i \in 1..Len(inventoryCache[k].val.inventory) :
                inventoryCache[k].val.inventory[i].access_control_level
                    = "confidential"

----------------------------------------------------------------------------
(* The cache out of reach *)

\* C18: while the cache is unreachable every read is a miss and every
\* write or invalidation fails without an exception: nothing the cache
\* holds changes, no event is taken for a duplicate, every event is
\* handled to the end and every permitted query is answered, computed
\* from the store.
C18_UnreachableIsMiss ==
    [][~redis_up =>
        /\ CacheState' = CacheState
        /\ Delivery => last'.outcome = "applied"
        /\ (lastReport' # lastReport /\ lastReport' # NoReport) =>
                /\ lastReport'.status_code \in {200, 403}
                /\ lastReport'.status_code = 200
                        => ~lastReport'.from_cache]_vars

\* with the cache out of reach an inventory query is computed from the
\* store although an older result of the same query is in the cache
C18_ComputedDespiteEntry ==
    /\ ~redis_up
    /\ Served("data-inventory")
    /\ ~lastReport.from_cache
    /\ \E k \in DOMAIN inventoryCache :
            /\ k[2] = lastReport.data_type
            /\ inventoryCache[k].exp > now
            /\ inventoryCache[k].val.count < lastReport.body.count

----------------------------------------------------------------------------
(* Events without their identifying field *)

\* the identifying field of the event is missing from what it carries
LacksId(handler, e) ==
    CASE handler \in {"user_created", "user_updated", "user_deleted"}
            -> e.f.user_id = None /\ e.f.id = None
      [] handler \in {"employee_created", "employee_updated",
                      "employee_terminated", "attendance", "leave"}
            -> e.f.employee_id = None
      [] handler = "notification"
            -> e.f.recipient_id = None /\ e.f.employee_id = None
      [] OTHER -> FALSE

\* C20: an event that lacks its identifying field (user_id or id for
\* the user handlers, employee_id for the employee, attendance and leave
\* handlers, recipient_id or employee_id for the notification handler)
\* writes nothing to the store, sets no marker, invalidates nothing,
\* increments no counter, and its handler returns normally.
C20_MalformedDropped ==
    [][(Delivery /\ LacksId(last'.handler, last'.env)) =>
        /\ store' = store
        /\ CacheState' = CacheState
        /\ last'.outcome \in {"dropped", "deduped"}]_vars

----------------------------------------------------------------------------
(* Counters and the audit publication *)

\* the rows a deletion event for the record of envelope e has to mark
DeletionOf(s, e, t) ==
    mark_retention_deleted(s, Or(e.f.user_id, e.f.id),
        IF e.f.deletion_reason = None THEN "User account deletion"
        ELSE e.f.deletion_reason, t)

\* C21: a counter is incremented and an audit envelope is published only
\* by an event whose transaction committed; an event whose transaction
\* failed publishes nothing and counts nothing; a deletion whose
\* transaction committed has marked its rows and ends applied whether or
\* not the counter and the publication went through.
C21_SideEffectsAfterCommit ==
    [][Delivery =>
        /\ (counters' # counters \/ published' # published)
                => last'.outcome = "applied"
        /\ last'.outcome # "applied"
                => (store' = store /\ published' = published
                    /\ counters' = counters)
        /\ (last'.handler = "user_deleted" /\ last'.outcome = "applied")
                => /\ store' = DeletionOf(store, last'.env, now)
                   /\ Len(published') \in {Len(published),
                                           Len(published) + 1}]_vars

\* a deletion was applied to a tracked record while the cache was out of
\* reach and the publication failed: the row is deleted, nothing was
\* counted and nothing was published
C21_DeletedUnannounced ==
    /\ last.handler = "user_deleted"
    /\ last.outcome = "applied"
    /\ ~last.up
    /\ published = << >>
    /\ \A key \in DOMAIN counters : key[1] # "data_deleted"
    /\ \E i \in RowIds(store) :
            /\ Rows[i].record_id = Or(last.env.f.user_id, last.env.f.id)
            /\ Rows[i].retention_status = "deleted"

----------------------------------------------------------------------------
(* What the ledger operations change and what they leave *)

\* the step just taken applied an event of one of these handlers
Applied(handlers) ==
    /\ Delivery
    /\ last'.handler \in handlers
    /\ last'.outcome = "applied"

\* the record a user or employee event names
NamedRecord(e) ==
    IF e.handler \in {"user_updated", "user_deleted"}
    THEN Or(e.env.f.user_id, e.env.f.id)
    ELSE Or(e.env.f.employee_id, e.env.f.id)

\* the deletion reason a deletion event carries
GivenReason(e) ==
    IF e.env.f.deletion_reason = None THEN "User account deletion"
    ELSE e.env.f.deletion_reason

\* C22: a deletion sets, on every entry of the record, the status
\* "deleted", the mark, both instants to now and the reason; it changes
\* nothing else of these entries but updated_at, no expiry, no entry of
\* another record, no inventory entry and no category.
C22_MarkDeletedFrame ==
    [][Applied({"user_deleted"}) =>
        /\ store'.inventory = store.inventory
        /\ store'.categories = store.categories
        /\ Len(Rows') = Len(Rows)
        /\ \A i \in RowIds(store) :
            /\ Rows'[i].retention_expires_at = Rows[i].retention_expires_at
            /\ Rows'[i] =
                IF Rows[i].record_id = NamedRecord(last')
                THEN [Rows[i] EXCEPT
                        !.retention_status = "deleted",
                        !.marked_for_deletion = TRUE,
                        !.marked_for_deletion_at = At(now),
                        !.deletion_completed_at = At(now),
                        !.deletion_reason = GivenReason(last'),
                        !.updated_at = now]
                ELSE Rows[i]]_vars

\* a deletion marked the entry of its record some time after the entry
\* was created, and the ledger holds an entry of another record
C22_MarkedBesideOther ==
    /\ last.handler = "user_deleted"
    /\ last.outcome = "applied"
    /\ \E i, j \in RowIds(store) :
        /\ Rows[i].record_id = NamedRecord(last)
        /\ Rows[i].deletion_completed_at = At(now)
        /\ Rows[i].deletion_reason = GivenReason(last)
        /\ Rows[i].data_created_at < now
        /\ Rows[j].record_id # NamedRecord(last)
        /\ Rows[j].retention_status = "active"

\* C23: a termination sets the status of the entries of its record to
\* "termination_retention" and changes nothing else of them but
\* updated_at: not the expiry, not the creation instant, not the deletion
\* fields; entries of other records are untouched and no entry is created
\* or removed.
C23_TerminationFrame ==
    [][Applied({"employee_terminated"}) =>
        /\ store'.inventory = store.inventory
        /\ store'.categories = store.categories
        /\ Len(Rows') = Len(Rows)
        /\ \A i \in RowIds(store) :
            /\ Rows'[i].retention_expires_at = Rows[i].retention_expires_at
            /\ Rows'[i].data_created_at = Rows[i].data_created_at
            /\ Rows'[i] =
                IF Rows[i].record_id = NamedRecord(last')
                THEN [Rows[i] EXCEPT
                        !.retention_status = "termination_retention",
                        !.updated_at = now]
                ELSE Rows[i]]_vars

\* a termination put the entry of its record on hold some time after the
\* entry was created, beside an active entry of another record
C23_HeldBesideOther ==
    /\ last.handler = "employee_terminated"
    /\ last.outcome = "applied"
    /\ \E i, j \in RowIds(store) :
        /\ Rows[i].record_id = NamedRecord(last)
        /\ Rows[i].retention_status = "termination_retention"
        /\ Rows[i].data_created_at < now
        /\ Rows[i].updated_at = now
        /\ Rows[j].record_id # NamedRecord(last)
        /\ Rows[j].retention_status = "active"

\* C24: an update sets data_last_accessed and updated_at of the entries of
\* its record to now and changes nothing else: no entry is created, status,
\* expiry and deletion fields stay, entries of other records are untouched,
\* and the store is unchanged when no entry is of the record.
C24_RefreshFrame ==
    [][Applied({"user_updated", "employee_updated"}) =>
        /\ store'.inventory = store.inventory
        /\ store'.categories = store.categories
        /\ Len(Rows') = Len(Rows)
        /\ \A i \in RowIds(store) :
            Rows'[i] =
                IF Rows[i].record_id = NamedRecord(last')
                THEN [Rows[i] EXCEPT !.data_last_accessed = now,
                                     !.updated_at = now]
                ELSE Rows[i]
        /\ (\A i \in RowIds(store) :
                Rows[i].record_id # NamedRecord(last')) => store' = store]_vars

\* an update found no entry of its record in a ledger that tracks another
\* record
C24_NothingToRefresh ==
    /\ last.handler = "user_updated"
    /\ last.outcome = "applied"
    /\ Rows # << >>
    /\ \A i \in RowIds(store) : Rows[i].record_id # NamedRecord(last)

----------------------------------------------------------------------------
(* The ledger under concurrent workers *)

\* C25: whatever the interleaving in which two workers process creation
\* events for the same record, the committed ledger holds at most one
\* entry per (data_inventory_id, record_id).
C25_LedgerUnique ==
    \A i, j \in RowIds(store) :
        (/\ Rows[i].data_inventory_id = Rows[j].data_inventory_id
         /\ Rows[i].record_id = Rows[j].record_id) => i = j

\* both workers handled an event for the same record, both found the
\* inventory entry and neither an entry of the record, and both are done
C25_BothFoundNone ==
    /\ workers # << >>
    /\ \A w \in Workers :
            /\ workers[w].pc = "done"
            /\ workers[w].outcome \in {"applied", "failed"}
            /\ ~workers[w].missed
            /\ workers[w].existing = 0
            /\ workers[w].env.f.user_id = "u1"
    /\ \E i \in RowIds(store) : Rows[i].record_id = "u1"

----------------------------------------------------------------------------
(* The life of a dedup marker *)

\* C26: a marker written with the default time to live is kept for more
\* than one day: it is still reported as seen one day after it was set.
C26_MarkerOutlivesADay ==
    [][\A key \in DOMAIN markers' :
        (key \notin DOMAIN markers \/ markers'[key] # markers[key])
            => is_duplicate_event(markers', key, TRUE,
                                  now + SecondsPerDay)]_vars

----------------------------------------------------------------------------
(* Classified events and the inventory *)

\* C27: after an event whose type has an entry in DATA_INVENTORY_MAPPING
\* was applied, the inventory holds an entry with the mapped data_name and
\* storage_location.
C27_ClassifiedRegistered ==
    [][(/\ Delivery
        /\ last'.outcome = "applied"
        /\ LookupType(last'.env, last'.topic)
                \in DOMAIN DATA_INVENTORY_MAPPING)
        => select_data_inventory(store',
                DATA_INVENTORY_MAPPING[LookupType(last'.env, last'.topic)])
            # 0]_vars

----------------------------------------------------------------------------
(* The deletion of an employee *)

\* C28: after an employee-deleted event that names the employee by
\* employee_id was processed, every entry of that record is deleted.
C28_EmployeeDeletionMarks ==
    [][(/\ Delivery
        /\ last'.topic = "employee-deleted"
        /\ last'.env.f.employee_id # None)
        => \A i \in RowIds(store') :
            Rows'[i].record_id = last'.env.f.employee_id
                => /\ Rows'[i].retention_status = "deleted"
                   /\ Rows'[i].deletion_completed_at # NoTime]_vars

----------------------------------------------------------------------------
(* Creation and deletion in either order *)

\* the event was applied by the user-created or the user-deleted handler
\* and names record_id
AppliedFor(e, handler, record_id) ==
    /\ e.handler = handler
    /\ e.outcome = "applied"
    /\ Or(e.env.f.user_id, e.env.f.id) = record_id

\* C29: once the creation event and the deletion event of a record have
\* been processed one right after the other, in either order, the ledger
\* holds an entry of the record and the entry is deleted.
C29_OrderIndependent ==
    [][\A record_id \in Ids :
        (/\ Delivery
         /\ \/ /\ AppliedFor(last, "user_created", record_id)
               /\ AppliedFor(last', "user_deleted", record_id)
            \/ /\ AppliedFor(last, "user_deleted", record_id)
               /\ AppliedFor(last', "user_created", record_id))
        => /\ \E i \in RowIds(store') : Rows'[i].record_id = record_id
           /\ \A i \in RowIds(store') :
                Rows'[i].record_id = record_id
                    => Rows'[i].retention_status = "deleted"]_vars

----------------------------------------------------------------------------
(* A report request racing a deletion *)

\* C30: once the requests and the deletion handler that ran at the same
\* time have all finished, every report in the cache shows the deletion:
\* it is the report of the ledger as the deletion left it.
C30_NoStaleReport ==
    (/\ DOMAIN workers = Readers \cup {Deleter}
     /\ \A p \in DOMAIN workers : workers[p].pc = "done")
        => \A k \in DOMAIN Live(retentionCache, now) :
            retentionCache[k].val =
                build_retention_report(store,
                    retentionCache[k].val.report_generated_at, k[1], k[2])

----------------------------------------------------------------------------
(* The role filters and the access rule as functions *)

Called(function) ==
    "route" \in DOMAIN lastReport /\ lastReport.route = function

\* out lists some of the rows of inp, unmodified and in their order
SubList(out, inp) ==
    \E f \in [1..Len(out) -> 1..Len(inp)] :
        /\ \A i \in 1..Len(out) : out[i] = inp[f[i]]
        /\ \A i, j \in 1..Len(out) : i < j => f[i] < f[j]

\* C31: both filters return a sub-list of their input with the rows
\* unmodified; for HR_Admin the input itself; for a role other than
\* HR_Admin and HR_Manager only retention rows whose data_subject is the
\* viewer and only inventory rows whose access_control_level is public or
\* internal.
C31_FiltersNarrow ==
    /\ (Called("filter_retention_report_for_role")
            \/ Called("filter_data_inventory_for_role")) =>
        /\ SubList(lastReport.output, lastReport.input)
        /\ lastReport.role = "HR_Admin"
                => lastReport.output = lastReport.input
    /\ (/\ Called("filter_retention_report_for_role")
        /\ lastReport.role \notin {"HR_Admin", "HR_Manager"}) =>
            \A i \in 1..Len(lastReport.output) :
                Get(lastReport.output[i], "data_subject")
                    = lastReport.actor_id
    /\ (/\ Called("filter_data_inventory_for_role")
        /\ lastReport.role \notin {"HR_Admin", "HR_Manager"}) =>
            \A i \in 1..Len(lastReport.output) :
                lastReport.output[i].access_control_level
                    \in {"public", "internal"}

\* an employee's inventory list lost a restricted row and kept a public one
C31_EmployeeNarrowed ==
    /\ Called("filter_data_inventory_for_role")
    /\ lastReport.role = "employee"
    /\ Len(lastReport.output) = 1
    /\ Len(lastReport.input) = 2
    /\ \E i \in 1..2 :
            lastReport.input[i].access_control_level = "restricted"

\* C32: for HR_Manager the inventory filter returns no item of data_type
\* "admin", and the retention filter, applied to rows as the report builds
\* them, returns no row whose data subject is an HR_Admin or HR_Manager.
C32_ManagerSeesNoAdminData ==
    /\ (/\ Called("filter_data_inventory_for_role")
        /\ lastReport.role = "HR_Manager") =>
            \A i \in 1..Len(lastReport.output) :
                lastReport.output[i].data_type # "admin"
    /\ (/\ Called("filter_retention_report_for_role")
        /\ lastReport.role = "HR_Manager"
        /\ \A i \in 1..Len(lastReport.input) :
                DOMAIN lastReport.input[i] = {"data_subject", "status"}) =>
            \A i \in 1..Len(lastReport.output) :
                lastReport.output[i].data_subject \in Ids
                    => RoleOfSubject[lastReport.output[i].data_subject]
                            \notin {"HR_Admin", "HR_Manager"}

----------------------------------------------------------------------------
(* Authorization before data access *)

\* what each route requires of the caller
Authorized(response) ==
    \/ response.viewer.role \in {"HR_Admin", "HR_Manager"}
    \/ /\ response.route = "data-about-me"
       /\ response.viewer.sub = response.employee_id

\* C34: a request the access rule denies is answered 403 with nothing of
\* the cache or the store in it, and leaves every cache as it was: the
\* refusal precedes the cache lookup, the cache write and the store read.
C34_DeniedBeforeAccess ==
    [][(lastReport' # NoReport /\ ~Delivery /\ ~Authorized(lastReport')) =>
            /\ lastReport'.status_code = 403
            /\ lastReport'.body = << >>
            /\ ~lastReport'.from_cache
            /\ UNCHANGED <<CacheState, store>>]_vars

\* another employee's summary, held in the cache, was refused to a manager
C34_RefusedDespiteEntry ==
    /\ Called("data-about-me")
    /\ lastReport.status_code = 403
    /\ lastReport.viewer.role = "manager"
    /\ redis_up
    /\ lastReport.employee_id \in DOMAIN employeeDataCache
    /\ employeeDataCache[lastReport.employee_id].exp > now
    /\ Len(store.retention) > 0

----------------------------------------------------------------------------
(* The registrar *)

\* the category a data type belongs to, and its sensitivity
CategoryOf(data_type) ==
    IF data_type = "personal" THEN <<"Personal Data", "high">>
    ELSE IF data_type = "sensitive" THEN <<"Sensitive Data", "critical">>
    ELSE IF data_type = "employment" THEN <<"Employment Data", "medium">>
    ELSE IF data_type = "operational" THEN <<"Operational Data", "low">>
    ELSE <<"Other Data", "medium">>

\* C35: every registered inventory entry has the default retention period,
\* encryption_status "encrypted", access_control_level "restricted" and
\* the category of its data_type; no two categories share a name and every
\* inventory entry references a category that exists.
C35_RegistrarDefaults ==
    /\ \A i \in 1..Len(store.inventory) :
        LET row == store.inventory[i] IN
            /\ row.retention_days = DEFAULT_RETENTION_DAYS
            /\ row.encryption_status = "encrypted"
            /\ row.access_control_level = "restricted"
            /\ row.category_id \in 1..Len(store.categories)
            /\ store.categories[row.category_id].name
                    = CategoryOf(row.data_type)[1]
            /\ store.categories[row.category_id].sensitivity_level
                    = CategoryOf(row.data_type)[2]
    /\ \A i, j \in 1..Len(store.categories) :
            store.categories[i].name = store.categories[j].name => i = j

\* two entries of one type share their category, beside an entry of a type
\* that falls to "Other Data"
C35_SharedCategory ==
    /\ Len(store.inventory) = 3
    /\ Len(store.categories) = 2
    /\ \E i \in 1..3 :
        /\ store.inventory[i].data_type = "admin"
        /\ store.categories[store.inventory[i].category_id].name
                = "Other Data"

----------------------------------------------------------------------------
(* The generic handler *)

\* the first identifier present, in the order id, user_id, employee_id,
\* attendance_id, leave_id
FirstPresent(f) ==
    IF f.id # None THEN f.id
    ELSE IF f.user_id # None THEN f.user_id
    ELSE IF f.employee_id # None THEN f.employee_id
    ELSE IF f.attendance_id # None THEN f.attendance_id
    ELSE f.leave_id

\* the ledger entries of record_id under the inventory entry of mapping
EntriesUnder(s, mapping, record_id) ==
    {i \in 1..Len(s.retention) :
        /\ s.retention[i].record_id = record_id
        /\ s.retention[i].data_inventory_id \in 1..Len(s.inventory)
        /\ s.inventory[s.retention[i].data_inventory_id].data_name
                = mapping.data_name
        /\ s.inventory[s.retention[i].data_inventory_id].storage_location
                = mapping.storage_location}

\* C36: after the generic handler has processed an event of a mapped type
\* that carries one of id, user_id, employee_id, attendance_id, leave_id,
\* the mapped inventory entry exists and the ledger holds exactly one entry
\* for it and the first identifier present in that order (unless the store
\* failed the transaction); an event with none of them leaves the store
\* unchanged.
C36_GenericPipeline ==
    [][(/\ Delivery
        /\ last'.handler = "generic"
        /\ last'.env.payload_kind = "dict"
        /\ last'.env.event_type \in DOMAIN DATA_INVENTORY_MAPPING) =>
            LET record_id == FirstPresent(last'.env.f)
                mapping == DATA_INVENTORY_MAPPING[last'.env.event_type]
            IN  IF record_id = None THEN store' = store
                ELSE /\ last'.outcome \in {"applied", "failed"}
                     /\ last'.outcome = "applied" =>
                            Cardinality(EntriesUnder(store', mapping,
                                                     record_id)) = 1]_vars

\* an event without id, with a user_id and another employee_id, was tracked
\* under the user_id
C36_TrackedUnderUserId ==
    /\ last.handler = "generic"
    /\ last.outcome = "applied"
    /\ last.env.f.id = None
    /\ last.env.f.user_id = "u2"
    /\ last.env.f.employee_id = "u1"
    /\ Cardinality(EntriesUnder(store, EmployeeSalaryData, "u2")) = 1
    /\ delivered = 2

----------------------------------------------------------------------------
(* The next scheduled deletion of a subject *)

\* the expiry instants of the entries of employee_id that still await
\* deletion
PendingExpiries(s, employee_id) ==
    {s.retention[i].retention_expires_at : i \in
        {j \in 1..Len(s.retention) :
            /\ s.retention[j].data_subject_id = employee_id
            /\ s.retention[j].retention_status # "deleted"}}

\* C37: a freshly computed summary of subject S gives as
\* next_scheduled_deletion the earliest retention_expires_at among the
\* entries of S that are not deleted, and nothing when no entry of S awaits
\* deletion.
C37_NextDeletionPending ==
    (Served("data-about-me") /\ ~lastReport.from_cache) =>
        LET pending == PendingExpiries(store, lastReport.employee_id)
        IN  lastReport.body.next_scheduled_deletion =
                IF pending = {} THEN NoTime ELSE At(Min(pending))

----------------------------------------------------------------------------
(* The counts of the retention report *)

RECURSIVE SumOfTotals(_, _)
SumOfTotals(summary, cats) ==
    IF cats = {} THEN 0
    ELSE LET cat == CHOOSE c \in cats : TRUE
         IN  summary[cat].total + SumOfTotals(summary, cats \ {cat})

\* C38: in every report active_records + expiring_soon + expired_records +
\* deleted_records = total_records_tracked, the total of each category is
\* the sum of its four counts, and the totals of the categories add up to
\* total_records_tracked.
C38_CountsConsistent ==
    Served("data-retention-report") =>
        LET body == lastReport.body
            summary == body.summary_by_category
        IN  /\ body.active_records + body.expiring_soon + body.expired_records
                    + body.deleted_records = body.total_records_tracked
            /\ \A cat \in DOMAIN summary :
                    summary[cat].total =
                        summary[cat].active + summary[cat].expiring_soon
                            + summary[cat].expired + summary[cat].deleted
            /\ SumOfTotals(summary, DOMAIN summary)
                    = body.total_records_tracked

\* a report filtered to the active records, over a deleted record of one
\* category and a record of another that expires soon
C38_TwoCategoriesFiltered ==
    /\ Served("data-retention-report")
    /\ lastReport.status = "active"
    /\ Cardinality(DOMAIN lastReport.body.summary_by_category) = 2
    /\ lastReport.body.deleted_records = 1
    /\ lastReport.body.expiring_soon = 1
    /\ lastReport.body.retention_items = << >>

----------------------------------------------------------------------------
(* The dedup gate without the cache *)

\* C39: while the cache is unreachable a user-created or employee-created
\* event is not taken for a duplicate: it is applied, no marker is
\* recorded, and the ledger holds one entry for its record afterwards, a
\* redelivery refreshing the entry instead of adding a second one.
C39_DedupFailsOpen ==
    [][(/\ Delivery
        /\ last'.handler \in {"user_created", "employee_created"}
        /\ ~last'.up) =>
            /\ last'.outcome = "applied"
            /\ markers' = markers
            /\ Cardinality(TargetRows(store', last')) = 1
            /\ Len(store'.retention) =
                    IF TargetRows(store, last') = {}
                    THEN Len(store.retention) + 1
                    ELSE Len(store.retention)]_vars

\* the same user-created event was applied twice without the cache and left
\* one entry and no marker
C39_AppliedTwiceOneEntry ==
    /\ last.handler = "user_created"
    /\ last.outcome = "applied"
    /\ ~last.up
    /\ delivered = 2
    /\ markers = NoKeys
    /\ published = << >>
    /\ Len(store.retention) = 1
    /\ store.retention[1].retention_status = "active"

----------------------------------------------------------------------------
(* One transaction per event *)

\* C40: the rows a creation handler flushes (category, inventory entry) and
\* its retention upsert reach the store together, at the handler's commit
\* and at no other step; a handler whose session fails before the commit
\* leaves the store as it was and nothing of its flushed rows behind.
C40_CommittedTogether ==
    [][/\ store' # store =>
            \E w \in Workers :
                /\ workers[w].pc = "commit"
                /\ workers'[w].pc = "committed"
                /\ store'.categories
                        = store.categories \o workers[w].tx.categories
                /\ store'.inventory
                        = store.inventory \o workers[w].tx.inventory
                /\ \E i \in 1..Len(store'.retention) :
                        /\ store'.retention[i].record_id
                                = workers[w].env.f.user_id
                        /\ store'.retention[i].data_inventory_id
                                = workers[w].inventory_id
                        /\ store'.retention[i].data_inventory_id
                                \in 1..Len(store'.inventory)
       /\ \A w \in Workers :
            (workers'[w].outcome = "failed" /\ workers[w].outcome # "failed")
                => (store' = store /\ workers'[w].tx = NoTx)]_vars

\* a handler flushed a category and an inventory entry, then failed, and the
\* store holds neither
C40_FlushedThenFailed ==
    \E w \in Workers :
        /\ workers[w].outcome = "failed"
        /\ workers[w].category_id # 0
        /\ workers[w].inventory_id # 0
        /\ store = EmptyStore

====
